---------------------------- MODULE Spec2Model ----------------------------
(***************************************************************************)
(* AirDAW audio engine (src/audio_engine.c, src/audio_engine.h).           *)
(*                                                                         *)
(* Two execution contexts share one AudioEngine:                           *)
(*   - the control context, which calls the audio_engine_* API and the     *)
(*     field toggles of ui_handle_interactions, one call at a time;        *)
(*   - the audio sink's thread, which runs audio_callback once per period. *)
(* There is no lock: every store and every load of a shared field is a     *)
(* step of its own, and the steps of the two contexts interleave freely.   *)
(*                                                                         *)
(* Floats are fixed-point integers with ONE = 1.0 and products truncated   *)
(* toward zero.  Angles are counted in units of pi/4 (TWO_PI = 8 units).   *)
(***************************************************************************)
EXTENDS Integers, Sequences, FiniteSets, TLC

(***************************************************************************)
(* Program constants (src/audio_engine.h).                                 *)
(***************************************************************************)
MAX_TRACKS == 16
SAMPLE_RATE == 48000
CHANNELS == 2
MAX_EFFECTS_PER_TRACK == 8

EFFECT_NONE == 0
EFFECT_GAIN == 1
EFFECT_LOWPASS == 2
EFFECT_HIGHPASS == 3
EFFECT_DELAY == 4
EFFECT_REVERB == 5

(***************************************************************************)
(* Fixed-point representation of float.                                    *)
(***************************************************************************)
ONE == 1000
TWO_PI == 8

\* Failure sentinel of audio_engine_add_track.
NO_TRACK == -1

(***************************************************************************)
(* Bounds of the model.                                                    *)
(***************************************************************************)
\* Frames per period: the sink asks for MaxFrames frames.
MaxFrames == 2
\* Life-cycle specification: audio_engine_init calls, API calls, toggles and
\* callback periods per behaviour.
MaxInits == 2
MaxCalls == 2
MaxToggles == 2
MaxPeriods == 1
\* Mixing specification: tracks of the session, toggles and periods.
MixTracks == 2
MixToggles == 1
MixPeriods == 1
\* Capacity specification: API calls and periods per behaviour.
CapCalls == 2
CapPeriods == 1
\* Effects specification: longest chain of the session, API calls and periods.
FxChain == 1
FxCalls == 1
FxPeriods == 1
\* Control-surface specification: inits, API calls and periods.
SurfInits == 1
SurfCalls == 2
SurfPeriods == 1
\* Chain-editing specification: API calls and periods.
EditCalls == 1
EditPeriods == 1
\* Two-period specification: mix-control toggles and periods.
SkipToggles == 1
SoloToggles == 1
SoloPeriods == 1
SkipPeriods == 2
\* Signal-path specification: periods, and the longest chain of a session.
TonePeriods == 1
ToneChain == 1

TrackIdx == 0 .. (MAX_TRACKS - 1)

\* Caller-supplied oscillator frequencies (Hz) and names.  audio_engine_add_track
\* stores whatever float it is given: 6000 Hz stands for the frequencies
\* below the sample rate, 96000 Hz for those above it.
Freqs == {6000, 96000}
Names == {"Bass"}

(***************************************************************************)
(* float arithmetic                                                        *)
(***************************************************************************)
Abs(x) == IF x < 0 THEN -x ELSE x

\* a * b, truncated toward zero.  The product is formed from the whole and
\* the fractional part of |a| so that no intermediate value leaves the
\* 32-bit range for the magnitudes a float sample takes here.
Mul(a, b) ==
    LET x == Abs(a)
        y == Abs(b)
        m == (x \div ONE) * y + ((x % ONE) * y) \div ONE
    IN  IF (a < 0) = (b < 0) THEN m ELSE -m

\* a / n for an integer n > 0, truncated toward zero.
DivInt(a, n) == IF a >= 0 THEN a \div n ELSE -((-a) \div n)

RECURSIVE ISqrtFrom(_, _, _)
ISqrtFrom(n, lo, hi) ==
    IF lo >= hi THEN lo
    ELSE LET mid == (lo + hi + 1) \div 2
         IN  IF mid * mid <= n THEN ISqrtFrom(n, mid, hi)
                               ELSE ISqrtFrom(n, lo, mid - 1)

\* sqrtf(x): the largest r with r*r <= x in fixed point.  The search stops
\* at 46340, the largest root of a 32-bit integer; above 2147.483 the root
\* is taken of the whole part of x.
Sqrtf(x) ==
    IF x <= 0 THEN 0
    ELSE IF x <= 2147483
         THEN ISqrtFrom(x * ONE, 0, IF x * ONE > 46340 THEN 46340 ELSE x * ONE)
         ELSE ONE * ISqrtFrom(x \div ONE, 0, 46340)

\* sinf and cosf at an angle of k units of pi/4.
SinTable == <<0, 707, 1000, 707, 0, -707, -1000, -707>>
Sinf(k) == SinTable[(k % TWO_PI) + 1]
Cosf(k) == Sinf(k + 2)

\* a / b for floats, truncated toward zero.
Div(a, b) ==
    LET n == Abs(a) * ONE
        q == n \div Abs(b)
    IN  IF (a < 0) = (b < 0) THEN q ELSE -q

\* 2*pi*frequency/SAMPLE_RATE in angle units.
PhaseInc(frequency) == DivInt(TWO_PI * frequency, SAMPLE_RATE)


(***************************************************************************)
(* State                                                                   *)
(***************************************************************************)
VARIABLES
    \* AudioEngine
    tracks,          \* Track tracks[MAX_TRACKS]
    track_count,
    master_volume,
    master_peak,     \* <<left, right>>
    master_rms,
    playing,         \* atomic_bool
    initialized,     \* atomic_bool
    device,          \* ma_device: "none", "inited" or "started"
    \* statics of process_track_effects
    filter_state_l,
    filter_state_r,
    \* control context: the call in progress and the last return values
    ctl,
    ret_add_track,
    ret_init,
    \* audio thread: locals of audio_callback and the sink's buffer
    cb,
    temp_left,
    temp_right,
    out,
    \* history of the period in progress (or of the last one)
    hist,
    \* calls made so far
    used

vars == <<tracks, track_count, master_volume, master_peak, master_rms,
          playing, initialized, device, filter_state_l, filter_state_r,
          ctl, ret_add_track, ret_init, cb, temp_left, temp_right, out,
          hist, used>>

\* Effect: the union of gain_params, filter_params, delay_params and
\* reverb_params is three float words p0, p1, p2.
ZeroEffect ==
    [type |-> EFFECT_NONE, enabled |-> FALSE, p0 |-> 0, p1 |-> 0, p2 |-> 0]

ZeroTrack ==
    [name |-> "", volume |-> 0, pan |-> 0, mute |-> FALSE, solo |-> FALSE,
     armed |-> FALSE, frequency |-> 0, phase |-> 0, playing |-> FALSE,
     effects |-> [e \in {} |-> ZeroEffect], effect_count |-> 0,
     peak_level |-> <<0, 0>>, rms_level |-> <<0, 0>>]

\* tracks[] and effects[] hold only the slots that have been stored to; every
\* other slot still holds the zeroes of "AudioEngine engine = {0}".
Slot(trs, t) == IF t \in DOMAIN trs THEN trs[t] ELSE ZeroTrack
Put(trs, t, track) ==
    [x \in DOMAIN trs \cup {t} |-> IF x = t THEN track ELSE trs[x]]
EffectAt(track, e) ==
    IF e \in DOMAIN track.effects THEN track.effects[e] ELSE ZeroEffect
PutEffect(track, e, effect) ==
    [track EXCEPT !.effects =
        [x \in DOMAIN @ \cup {e} |-> IF x = e THEN effect ELSE @[x]]]

\* static float filter_state_l[MAX_TRACKS] = {0}, likewise
FilterState(fs, t) == IF t \in DOMAIN fs THEN fs[t] ELSE 0
PutFilterState(fs, t, v) ==
    IF v = FilterState(fs, t) THEN fs
    ELSE [x \in DOMAIN fs \cup {t} |-> IF x = t THEN v ELSE fs[x]]

\* The control context between two calls.  saved is history, kept until the
\* call returns: the shared state as audio_engine_init found it, the chain
\* (effects[] and effect_count) as audio_engine_add_effect and
\* audio_engine_remove_effect found it.
CtlIdle ==
    [pc |-> "idle", track |-> 0, index |-> 0, i |-> 0, arg |-> 0, value |-> 0,
     name |-> "", saved |-> << >>]

\* The audio thread between two periods.
CbIdle == [pc |-> "idle", frame_count |-> 0, t |-> 0, e |-> 0, i |-> 0,
           any_solo |-> FALSE, type |-> 0]

\* What the sink's buffer and the callback's stack arrays hold before they
\* are written.
Unwritten(n) == [k \in 1 .. n |-> 9]

HistIdle ==
    [fast |-> FALSE, mixed |-> {}, muted |-> {}, soloed |-> {}, unsoloed |-> {},
     track_index |-> -1, effect_index |-> -1, quiet |-> FALSE,
     applied |-> << >>]

\* Calls made so far, and the API call that last returned on its rejecting
\* path ("" when the last call did its work).
UsedNone ==
    [inits |-> 0, periods |-> 0, toggles |-> 0, calls |-> 0, rejected |-> ""]

\* AudioEngine engine = {0};
Init ==
    /\ tracks = [t \in {} |-> ZeroTrack]
    /\ track_count = 0
    /\ master_volume = 0
    /\ master_peak = <<0, 0>>
    /\ master_rms = <<0, 0>>
    /\ playing = FALSE
    /\ initialized = FALSE
    /\ device = "none"
    /\ filter_state_l = [t \in {} |-> 0]
    /\ filter_state_r = [t \in {} |-> 0]
    /\ ctl = CtlIdle
    /\ ret_add_track = NO_TRACK
    /\ ret_init = FALSE
    /\ cb = CbIdle
    /\ temp_left = Unwritten(MaxFrames)
    /\ temp_right = Unwritten(MaxFrames)
    /\ out = Unwritten(CHANNELS * MaxFrames)
    /\ hist = HistIdle
    /\ used = UsedNone


(***************************************************************************)
(* History of a period: the tracks whose mute flag was set at every        *)
(* instant of the period so far (muted), likewise solo set (soloed) and    *)
(* solo clear (unsoloed); the tracks whose samples were added to the       *)
(* output (mixed); whether the period took the not-playing path (fast);    *)
(* the largest index the callback has used into tracks[] (track_index) and *)
(* into a track's effects[] (effect_index), -1 when it has used none;      *)
(* whether the control context has been between two calls and has not      *)
(* taken a step since the period began (quiet).                            *)
(***************************************************************************)
HistStart(trs, n, idle) ==
    [fast |-> FALSE, mixed |-> {}, quiet |-> idle,
     muted |-> {t \in 0 .. (n - 1) : Slot(trs, t).mute},
     soloed |-> {t \in 0 .. (n - 1) : Slot(trs, t).solo},
     unsoloed |-> {t \in 0 .. (n - 1) : ~Slot(trs, t).solo},
     track_index |-> -1, effect_index |-> -1, applied |-> << >>]

Max(a, b) == IF a > b THEN a ELSE b
UsedTrack(h, t) == [h EXCEPT !.track_index = Max(@, t)]
UsedEffect(h, e) == [h EXCEPT !.effect_index = Max(@, e)]
AppliedEffect(h, type) == [h EXCEPT !.applied = Append(@, type)]

HistObserve(h, trs) ==
    [h EXCEPT !.muted = {t \in @ : Slot(trs, t).mute},
              !.soloed = {t \in @ : Slot(trs, t).solo},
              !.unsoloed = {t \in @ : ~Slot(trs, t).solo},
              !.quiet = FALSE]

\* A control context that clears the filter memories at every step.
ControlStepClearsFilters ==
    /\ hist' = IF cb.pc = "idle" THEN [hist EXCEPT !.quiet = FALSE]
                ELSE HistObserve(hist, tracks')
    /\ filter_state_l' = [t \in {} |-> 0]
    /\ filter_state_r' = [t \in {} |-> 0]
    /\ UNCHANGED <<cb, temp_left, temp_right, out, master_peak, master_rms>>

\* A step of the control context: the audio thread's state is not touched.
ControlStep ==
    /\ hist' = IF cb.pc = "idle" THEN [hist EXCEPT !.quiet = FALSE]
                ELSE HistObserve(hist, tracks')
    /\ UNCHANGED <<filter_state_l, filter_state_r, cb, temp_left, temp_right,
                   out, master_peak, master_rms>>

(***************************************************************************)
(* audio_engine_init                                                       *)
(***************************************************************************)
init_Call ==
    /\ ctl.pc = "idle"
    /\ ~initialized
    /\ device = "none"
    /\ ctl' = [CtlIdle EXCEPT !.pc = "init",
                              !.saved = <<master_volume, track_count, playing,
                                          initialized, tracks>>]
    /\ used' = [used EXCEPT !.inits = @ + 1]
    /\ UNCHANGED <<tracks, track_count, master_volume, playing, initialized,
                   device, ret_add_track, ret_init>>
    /\ ControlStep

\* lines 234-236
init_Setup ==
    /\ ctl.pc = "init"
    /\ master_volume' = 750
    /\ track_count' = 0
    /\ playing' = FALSE
    /\ ctl' = [ctl EXCEPT !.pc = "init_device"]
    /\ UNCHANGED <<tracks, initialized, device, ret_add_track, ret_init, used>>
    /\ ControlStep

\* lines 253-257: ma_device_init succeeds or fails
init_Device(ok) ==
    /\ ctl.pc = "init_device"
    /\ IF ok
       THEN /\ device' = "inited"
            /\ ctl' = [ctl EXCEPT !.pc = "init_start"]
            /\ UNCHANGED <<ret_init, initialized>>
       ELSE /\ device' = "none"
            /\ ret_init' = FALSE
            /\ ctl' = CtlIdle
            /\ UNCHANGED initialized
    /\ UNCHANGED <<tracks, track_count, master_volume, playing, ret_add_track,
                   used>>
    /\ ControlStep

\* lines 268-273: ma_device_start succeeds or fails
init_Start(ok) ==
    /\ ctl.pc = "init_start"
    /\ IF ok
       THEN /\ device' = "started"
            /\ ctl' = [ctl EXCEPT !.pc = "init_store"]
            /\ UNCHANGED <<ret_init, initialized>>
       ELSE /\ device' = "none"
            /\ ret_init' = FALSE
            /\ ctl' = CtlIdle
            /\ UNCHANGED initialized
    /\ UNCHANGED <<tracks, track_count, master_volume, playing, ret_add_track,
                   used>>
    /\ ControlStep

\* lines 275-277
init_Store ==
    /\ ctl.pc = "init_store"
    /\ initialized' = TRUE
    /\ ret_init' = TRUE
    /\ ctl' = CtlIdle
    /\ UNCHANGED <<tracks, track_count, master_volume, playing, device,
                   ret_add_track, used>>
    /\ ControlStep

(***************************************************************************)
(* audio_engine_shutdown                                                   *)
(***************************************************************************)
shutdown_Call ==
    /\ ctl.pc = "idle"
    /\ ctl' = [CtlIdle EXCEPT !.pc = "shutdown"]
    /\ used' = [used EXCEPT !.rejected = ""]
    /\ UNCHANGED <<tracks, track_count, master_volume, playing, initialized,
                   device, ret_add_track, ret_init>>
    /\ ControlStep

\* A shutdown that does not look at the initialized flag.
shutdown_CheckAlways ==
    /\ ctl.pc = "shutdown"
    /\ ctl' = [ctl EXCEPT !.pc = "shutdown_stop"]
    /\ UNCHANGED <<tracks, track_count, master_volume, playing, initialized,
                   device, ret_add_track, ret_init, used>>
    /\ ControlStep

\* line 281
shutdown_Check ==
    /\ ctl.pc = "shutdown"
    /\ IF initialized
       THEN /\ ctl' = [ctl EXCEPT !.pc = "shutdown_stop"]
            /\ UNCHANGED used
       ELSE /\ ctl' = CtlIdle
            /\ used' = [used EXCEPT !.rejected = "shutdown"]
    /\ UNCHANGED <<tracks, track_count, master_volume, playing, initialized,
                   device, ret_add_track, ret_init>>
    /\ ControlStep

\* A shutdown that leaves the playing flag as it is.
shutdown_StopKeepsPlaying ==
    /\ ctl.pc = "shutdown_stop"
    /\ ctl' = [ctl EXCEPT !.pc = "shutdown_uninit"]
    /\ UNCHANGED <<tracks, track_count, master_volume, playing, initialized,
                   device, ret_add_track, ret_init, used>>
    /\ ControlStep

\* line 284
shutdown_Stop ==
    /\ ctl.pc = "shutdown_stop"
    /\ playing' = FALSE
    /\ ctl' = [ctl EXCEPT !.pc = "shutdown_uninit"]
    /\ UNCHANGED <<tracks, track_count, master_volume, initialized, device,
                   ret_add_track, ret_init, used>>
    /\ ControlStep

\* line 285: ma_device_uninit returns once the sink's thread has left the
\* callback and stopped.
shutdown_Uninit ==
    /\ ctl.pc = "shutdown_uninit"
    /\ cb.pc = "idle"
    /\ device' = "none"
    /\ ctl' = [ctl EXCEPT !.pc = "shutdown_store"]
    /\ UNCHANGED <<tracks, track_count, master_volume, playing, initialized,
                   ret_add_track, ret_init, used>>
    /\ ControlStep

\* line 287
shutdown_Store ==
    /\ ctl.pc = "shutdown_store"
    /\ initialized' = FALSE
    /\ ctl' = CtlIdle
    /\ UNCHANGED <<tracks, track_count, master_volume, playing, device,
                   ret_add_track, ret_init, used>>
    /\ ControlStep


(***************************************************************************)
(* audio_engine_add_track                                                  *)
(***************************************************************************)
add_track_Call(name, frequency) ==
    /\ ctl.pc = "idle"
    /\ initialized
    /\ ctl' = [CtlIdle EXCEPT !.pc = "add_track", !.name = name,
                              !.arg = frequency]
    /\ UNCHANGED <<tracks, track_count, master_volume, playing, initialized,
                   device, ret_add_track, ret_init>>
    /\ used' = [used EXCEPT !.calls = @ + 1, !.rejected = ""]
    /\ ControlStep

\* A capacity test that lets one track too many in.
TracksFullOffByOne(count) == count > MAX_TRACKS

\* A capacity test that never rejects.
TracksNeverFull(count) == FALSE

\* line 294
TracksFull(count) == count >= MAX_TRACKS

\* lines 294-300: the capacity check, then index = engine->track_count++
add_track_Check ==
    /\ ctl.pc = "add_track"
    /\ IF TracksFull(track_count)
       THEN /\ ret_add_track' = NO_TRACK
            /\ ctl' = CtlIdle
            /\ used' = [used EXCEPT !.rejected = "add_track"]
            /\ UNCHANGED track_count
       ELSE /\ track_count' = track_count + 1
            /\ ctl' = [ctl EXCEPT !.pc = "add_track_name", !.index = track_count]
            /\ UNCHANGED <<ret_add_track, used>>
    /\ UNCHANGED <<tracks, master_volume, playing, initialized, device,
                   ret_init>>
    /\ ControlStep

\* lines 302-311: the stores into the new slot, one per step, in program order
AddTrackStore(pc, tr, name, frequency) ==
    CASE pc = "add_track_name" -> [tr EXCEPT !.name = name]
      [] pc = "add_track_volume" -> [tr EXCEPT !.volume = 750]
      [] pc = "add_track_pan" -> [tr EXCEPT !.pan = 0]
      [] pc = "add_track_mute" -> [tr EXCEPT !.mute = FALSE]
      [] pc = "add_track_solo" -> [tr EXCEPT !.solo = FALSE]
      [] pc = "add_track_armed" -> [tr EXCEPT !.armed = FALSE]
      [] pc = "add_track_frequency" -> [tr EXCEPT !.frequency = frequency]
      [] pc = "add_track_phase" -> [tr EXCEPT !.phase = 0]
      [] pc = "add_track_effect_count" -> [tr EXCEPT !.effect_count = 0]
      [] pc = "add_track_playing" -> [tr EXCEPT !.playing = FALSE]

AddTrackAfter(pc) ==
    CASE pc = "add_track_name" -> "add_track_volume"
      [] pc = "add_track_volume" -> "add_track_pan"
      [] pc = "add_track_pan" -> "add_track_mute"
      [] pc = "add_track_mute" -> "add_track_solo"
      [] pc = "add_track_solo" -> "add_track_armed"
      [] pc = "add_track_armed" -> "add_track_frequency"
      [] pc = "add_track_frequency" -> "add_track_phase"
      [] pc = "add_track_phase" -> "add_track_effect_count"
      [] pc = "add_track_effect_count" -> "add_track_playing"
      [] pc = "add_track_playing" -> "idle"

AddTrackPcs ==
    {"add_track_name", "add_track_volume", "add_track_pan", "add_track_mute",
     "add_track_solo", "add_track_armed", "add_track_frequency",
     "add_track_phase", "add_track_effect_count", "add_track_playing"}

\* lines 302-314; the store of playing is the last one, then return index
add_track_Store ==
    /\ ctl.pc \in AddTrackPcs
    /\ tracks' = Put(tracks, ctl.index,
                      AddTrackStore(ctl.pc, Slot(tracks, ctl.index), ctl.name,
                                    ctl.arg))
    /\ IF AddTrackAfter(ctl.pc) = "idle"
       THEN /\ ret_add_track' = ctl.index
            /\ ctl' = CtlIdle
       ELSE /\ ctl' = [ctl EXCEPT !.pc = AddTrackAfter(ctl.pc)]
            /\ UNCHANGED ret_add_track
    /\ UNCHANGED <<track_count, master_volume, playing, initialized, device,
                   ret_init, used>>
    /\ ControlStep

(***************************************************************************)
(* audio_engine_add_effect                                                 *)
(***************************************************************************)
add_effect_Call(t, type) ==
    /\ ctl.pc = "idle"
    /\ initialized
    /\ t < track_count
    /\ ctl' = [CtlIdle EXCEPT !.pc = "add_effect", !.track = t, !.arg = type,
                              !.saved = <<Slot(tracks, t).effects,
                                          Slot(tracks, t).effect_count>>]
    /\ UNCHANGED <<tracks, track_count, master_volume, playing, initialized,
                   device, ret_add_track, ret_init>>
    /\ used' = [used EXCEPT !.calls = @ + 1, !.rejected = ""]
    /\ ControlStep

\* A capacity test that lets one effect too many in.
EffectsFullOffByOne(count) == count > MAX_EFFECTS_PER_TRACK

\* A capacity test that never rejects.
EffectsNeverFull(count) == FALSE

\* line 318
EffectsFull(count) == count >= MAX_EFFECTS_PER_TRACK

\* lines 318-323: the capacity check, then &track->effects[track->effect_count++]
add_effect_Check ==
    /\ ctl.pc = "add_effect"
    /\ LET track == Slot(tracks, ctl.track)
       IN  IF EffectsFull(track.effect_count)
           THEN /\ ctl' = CtlIdle
                /\ used' = [used EXCEPT !.rejected = "add_effect"]
                /\ UNCHANGED tracks
           ELSE /\ tracks' = Put(tracks, ctl.track,
                                 [track EXCEPT !.effect_count = @ + 1])
                /\ ctl' = [ctl EXCEPT !.pc = "add_effect_type",
                                      !.index = track.effect_count]
                /\ UNCHANGED used
    /\ UNCHANGED <<track_count, master_volume, playing, initialized, device,
                   ret_add_track, ret_init>>
    /\ ControlStep

\* Defaults that treat every kind as a Gain.
DefaultParamGainOnly(type, k) == IF k = 0 THEN ONE ELSE -1

\* lines 328-349: the default of parameter word k (0, 1, 2) of a kind, or
\* -1 when the kind has no such parameter
DefaultParam(type, k) ==
    CASE type = EFFECT_GAIN -> IF k = 0 THEN ONE ELSE -1
      [] type \in {EFFECT_LOWPASS, EFFECT_HIGHPASS} ->
            IF k = 0 THEN 1000 * ONE ELSE IF k = 1 THEN 1000 ELSE -1
      [] type = EFFECT_DELAY ->
            IF k = 0 THEN 250 * ONE ELSE IF k = 1 THEN 300 ELSE 500
      [] type = EFFECT_REVERB ->
            IF k = 0 THEN 500 ELSE IF k = 1 THEN 500 ELSE 300
      [] OTHER -> -1

\* lines 324-349: the stores into the new effect, one per step
AddEffectStore(pc, eff, type) ==
    CASE pc = "add_effect_type" -> [eff EXCEPT !.type = type]
      [] pc = "add_effect_enabled" -> [eff EXCEPT !.enabled = TRUE]
      [] pc = "add_effect_p0" -> [eff EXCEPT !.p0 = DefaultParam(type, 0)]
      [] pc = "add_effect_p1" -> [eff EXCEPT !.p1 = DefaultParam(type, 1)]
      [] pc = "add_effect_p2" -> [eff EXCEPT !.p2 = DefaultParam(type, 2)]

AddEffectAfter(pc, type) ==
    CASE pc = "add_effect_type" -> "add_effect_enabled"
      [] pc = "add_effect_enabled" ->
            IF DefaultParam(type, 0) >= 0 THEN "add_effect_p0" ELSE "idle"
      [] pc = "add_effect_p0" ->
            IF DefaultParam(type, 1) >= 0 THEN "add_effect_p1" ELSE "idle"
      [] pc = "add_effect_p1" ->
            IF DefaultParam(type, 2) >= 0 THEN "add_effect_p2" ELSE "idle"
      [] pc = "add_effect_p2" -> "idle"

AddEffectPcs ==
    {"add_effect_type", "add_effect_enabled", "add_effect_p0", "add_effect_p1",
     "add_effect_p2"}

add_effect_Store ==
    /\ ctl.pc \in AddEffectPcs
    /\ LET track == Slot(tracks, ctl.track)
       IN  tracks' = Put(tracks, ctl.track,
                         PutEffect(track, ctl.index,
                                   AddEffectStore(ctl.pc,
                                                  EffectAt(track, ctl.index),
                                                  ctl.arg)))
    /\ ctl' = IF AddEffectAfter(ctl.pc, ctl.arg) = "idle"
              THEN CtlIdle
              ELSE [ctl EXCEPT !.pc = AddEffectAfter(ctl.pc, ctl.arg)]
    /\ UNCHANGED <<track_count, master_volume, playing, initialized, device,
                   ret_add_track, ret_init, used>>
    /\ ControlStep


(***************************************************************************)
(* audio_engine_remove_effect                                              *)
(***************************************************************************)
remove_effect_Call(t, effect_index) ==
    /\ ctl.pc = "idle"
    /\ initialized
    /\ t < track_count
    /\ ctl' = [CtlIdle EXCEPT !.pc = "remove_effect", !.track = t,
                              !.index = effect_index,
                              !.saved = <<Slot(tracks, t).effects,
                                          Slot(tracks, t).effect_count>>]
    /\ UNCHANGED <<tracks, track_count, master_volume, playing, initialized,
                   device, ret_add_track, ret_init>>
    /\ used' = [used EXCEPT !.calls = @ + 1, !.rejected = ""]
    /\ ControlStep

\* An index test that forgets the negative indices.
IndexPastEnd(effect_index, count) == effect_index >= count

\* lines 355 and 370
InvalidEffectIndex(effect_index, count) ==
    effect_index < 0 \/ effect_index >= count

\* lines 355-358
remove_effect_Check ==
    /\ ctl.pc = "remove_effect"
    /\ IF InvalidEffectIndex(ctl.index, Slot(tracks, ctl.track).effect_count)
       THEN /\ ctl' = CtlIdle
            /\ used' = [used EXCEPT !.rejected = "remove_effect"]
       ELSE /\ ctl' = [ctl EXCEPT !.pc = "remove_effect_shift", !.i = ctl.index]
            /\ UNCHANGED used
    /\ UNCHANGED <<tracks, track_count, master_volume, playing, initialized,
                   device, ret_add_track, ret_init>>
    /\ ControlStep

\* A removal that drops the last effect whatever the index.
remove_effect_DropLast ==
    /\ ctl.pc = "remove_effect_shift"
    /\ tracks' = Put(tracks, ctl.track,
                     [Slot(tracks, ctl.track) EXCEPT !.effect_count = @ - 1])
    /\ ctl' = CtlIdle
    /\ UNCHANGED <<track_count, master_volume, playing, initialized, device,
                   ret_add_track, ret_init, used>>
    /\ ControlStep

\* lines 361-364: one struct copy of the shift loop per step; the step that
\* finds the loop done decrements effect_count and returns
remove_effect_Shift ==
    /\ ctl.pc = "remove_effect_shift"
    /\ LET track == Slot(tracks, ctl.track)
       IN  IF ctl.i < track.effect_count - 1
           THEN /\ tracks' = Put(tracks, ctl.track,
                                 PutEffect(track, ctl.i,
                                           EffectAt(track, ctl.i + 1)))
                /\ ctl' = [ctl EXCEPT !.i = @ + 1]
           ELSE /\ tracks' = Put(tracks, ctl.track,
                                 [track EXCEPT !.effect_count = @ - 1])
                /\ ctl' = CtlIdle
    /\ UNCHANGED <<track_count, master_volume, playing, initialized, device,
                   ret_add_track, ret_init, used>>
    /\ ControlStep

(***************************************************************************)
(* audio_engine_toggle_effect                                              *)
(***************************************************************************)
toggle_effect_Call(t, effect_index) ==
    /\ ctl.pc = "idle"
    /\ initialized
    /\ t < track_count
    /\ ctl' = [CtlIdle EXCEPT !.pc = "toggle_effect", !.track = t,
                              !.index = effect_index]
    /\ UNCHANGED <<tracks, track_count, master_volume, playing, initialized,
                   device, ret_add_track, ret_init>>
    /\ used' = [used EXCEPT !.calls = @ + 1, !.rejected = ""]
    /\ ControlStep

\* A toggle that switches the effect on whatever it was.
ToggledEffectOn(effect) == [effect EXCEPT !.enabled = TRUE]

\* line 376: effect->enabled = !effect->enabled
ToggledEffect(effect) == [effect EXCEPT !.enabled = ~@]

\* lines 370-378
toggle_effect_Body ==
    /\ ctl.pc = "toggle_effect"
    /\ LET track == Slot(tracks, ctl.track)
           effect == EffectAt(track, ctl.index)
       IN  IF InvalidEffectIndex(ctl.index, track.effect_count)
           THEN /\ used' = [used EXCEPT !.rejected = "toggle_effect"]
                /\ UNCHANGED tracks
           ELSE /\ tracks' = Put(tracks, ctl.track,
                                 PutEffect(track, ctl.index,
                                           ToggledEffect(effect)))
                /\ UNCHANGED used
    /\ ctl' = CtlIdle
    /\ UNCHANGED <<track_count, master_volume, playing, initialized, device,
                   ret_add_track, ret_init>>
    /\ ControlStep

(***************************************************************************)
(* audio_engine_set_effect_param                                           *)
(***************************************************************************)
set_effect_param_Call(t, e, param_index, value) ==
    /\ ctl.pc = "idle"
    /\ initialized
    /\ t < track_count
    /\ e < Slot(tracks, t).effect_count
    /\ ctl' = [CtlIdle EXCEPT !.pc = "set_effect_param", !.track = t,
                              !.index = e, !.arg = param_index,
                              !.value = value]
    /\ UNCHANGED <<tracks, track_count, master_volume, playing, initialized,
                   device, ret_add_track, ret_init>>
    /\ used' = [used EXCEPT !.calls = @ + 1, !.rejected = ""]
    /\ ControlStep

\* A setter that stores into the first parameter whatever it is given.
SetEffectParamUnchecked(eff, param_index, value) == [eff EXCEPT !.p0 = value]

\* lines 382-403
SetEffectParam(eff, param_index, value) ==
    CASE eff.type = EFFECT_GAIN ->
            IF param_index = 0 THEN [eff EXCEPT !.p0 = value] ELSE eff
      [] eff.type \in {EFFECT_LOWPASS, EFFECT_HIGHPASS} ->
            IF param_index = 0 THEN [eff EXCEPT !.p0 = value]
            ELSE IF param_index = 1 THEN [eff EXCEPT !.p1 = value]
            ELSE eff
      [] eff.type \in {EFFECT_DELAY, EFFECT_REVERB} ->
            IF param_index = 0 THEN [eff EXCEPT !.p0 = value]
            ELSE IF param_index = 1 THEN [eff EXCEPT !.p1 = value]
            ELSE IF param_index = 2 THEN [eff EXCEPT !.p2 = value]
            ELSE eff
      [] OTHER -> eff

set_effect_param_Body ==
    /\ ctl.pc = "set_effect_param"
    /\ LET track == Slot(tracks, ctl.track)
       IN  tracks' = Put(tracks, ctl.track,
                         PutEffect(track, ctl.index,
                                   SetEffectParam(EffectAt(track, ctl.index),
                                                  ctl.arg, ctl.value)))
    /\ ctl' = CtlIdle
    /\ UNCHANGED <<track_count, master_volume, playing, initialized, device,
                   ret_add_track, ret_init, used>>
    /\ ControlStep

(***************************************************************************)
(* ui_handle_interactions: the toggles of the control context              *)
(***************************************************************************)
\* lines 360-367
toggle_track_playing(t) ==
    /\ ctl.pc = "idle"
    /\ initialized
    /\ t < track_count
    /\ tracks' = Put(tracks, t, [Slot(tracks, t) EXCEPT !.playing = ~@])
    /\ used' = [used EXCEPT !.toggles = @ + 1]
    /\ UNCHANGED <<track_count, master_volume, playing, initialized, device,
                   ctl, ret_add_track, ret_init>>
    /\ ControlStep

\* lines 370-376
toggle_track_mute(t) ==
    /\ ctl.pc = "idle"
    /\ initialized
    /\ t < track_count
    /\ tracks' = Put(tracks, t, [Slot(tracks, t) EXCEPT !.mute = ~@])
    /\ used' = [used EXCEPT !.toggles = @ + 1]
    /\ UNCHANGED <<track_count, master_volume, playing, initialized, device,
                   ctl, ret_add_track, ret_init>>
    /\ ControlStep

\* lines 379-385
toggle_track_solo(t) ==
    /\ ctl.pc = "idle"
    /\ initialized
    /\ t < track_count
    /\ tracks' = Put(tracks, t, [Slot(tracks, t) EXCEPT !.solo = ~@])
    /\ used' = [used EXCEPT !.toggles = @ + 1]
    /\ UNCHANGED <<track_count, master_volume, playing, initialized, device,
                   ctl, ret_add_track, ret_init>>
    /\ ControlStep

\* lines 388-393
toggle_master_play ==
    /\ ctl.pc = "idle"
    /\ initialized
    /\ playing' = ~playing
    /\ used' = [used EXCEPT !.toggles = @ + 1]
    /\ UNCHANGED <<tracks, track_count, master_volume, initialized, device,
                   ctl, ret_add_track, ret_init>>
    /\ ControlStep


(***************************************************************************)
(* Effect processing                                                       *)
(***************************************************************************)
\* A gain stage that passes every sample through.
process_gain_bypass(sample, effect) == sample

\* lines 45-48
process_gain_effect(sample, effect) ==
    IF ~effect.enabled THEN sample ELSE Mul(sample, effect.p0)

\* A low-pass filter that does not look at the enabled flag.
process_lowpass_always(sample, effect, state) ==
    LET cutoff == effect.p0
        alpha == Div(cutoff, cutoff + ONE)
        st == Mul(alpha, sample) + Mul(ONE - alpha, state)
    IN  <<st, st>>

\* lines 50-59: <<returned sample, new *state>>
process_lowpass_effect(sample, effect, state) ==
    IF ~effect.enabled THEN <<sample, state>>
    ELSE LET cutoff == effect.p0
             alpha == Div(cutoff, cutoff + ONE)
             st == Mul(alpha, sample) + Mul(ONE - alpha, state)
         IN  <<st, st>>

\* A high-pass filter that moves its state away from the input.
process_highpass_away(sample, effect, state) ==
    IF ~effect.enabled THEN <<sample, state>>
    ELSE LET cutoff == effect.p0
             alpha == Div(ONE, cutoff + ONE)
             output == sample - state
         IN  <<output, state - Mul(alpha, output)>>

\* lines 61-70: <<returned sample, new *state>>
process_highpass_effect(sample, effect, state) ==
    IF ~effect.enabled THEN <<sample, state>>
    ELSE LET cutoff == effect.p0
             alpha == Div(ONE, cutoff + ONE)
             output == sample - state
         IN  <<output, state + Mul(alpha, output)>>

\* lines 80-112: one sample of one channel through one effect, dispatched on
\* the type the switch has read
ProcessSample(type, sample, effect, state) ==
    CASE type = EFFECT_GAIN -> <<process_gain_effect(sample, effect), state>>
      [] type = EFFECT_LOWPASS -> process_lowpass_effect(sample, effect, state)
      [] type = EFFECT_HIGHPASS -> process_highpass_effect(sample, effect, state)
      [] OTHER -> <<sample, state>>

\* A switch whose gain case is missing.
HasFrameLoopFilters(type) == type \in {EFFECT_LOWPASS, EFFECT_HIGHPASS}

\* lines 81-100: the kinds whose case holds a per-frame loop
HasFrameLoop(type) == type \in {EFFECT_GAIN, EFFECT_LOWPASS, EFFECT_HIGHPASS}

(***************************************************************************)
(* audio_callback                                                          *)
(***************************************************************************)
\* A step of the audio thread: the control context's state is not touched.
CallbackStep ==
    UNCHANGED <<track_count, master_volume, playing, initialized, device,
                ctl, ret_add_track, ret_init>>

\* The sink invokes the callback with a buffer of frame_count frames.
cb_Invoke(frame_count) ==
    /\ cb.pc = "idle"
    /\ device = "started"
    /\ cb' = [CbIdle EXCEPT !.pc = "entry", !.frame_count = frame_count]
    /\ out' = Unwritten(CHANNELS * MaxFrames)
    /\ hist' = HistStart(tracks, track_count, ctl.pc = "idle")
    /\ used' = [used EXCEPT !.periods = @ + 1]
    /\ CallbackStep
    /\ UNCHANGED <<tracks, master_peak, master_rms, filter_state_l,
                   filter_state_r, temp_left, temp_right>>

\* A memset whose length leaves out the channel count.
ClearedMono(buf, frame_count) ==
    [k \in DOMAIN buf |-> IF k <= frame_count THEN 0 ELSE buf[k]]

\* memset(out, 0, frame_count * CHANNELS * sizeof(float))
Cleared(buf, frame_count) ==
    [k \in DOMAIN buf |-> IF k <= frame_count * CHANNELS THEN 0 ELSE buf[k]]

\* line 126
EngineStopped(p) == ~p

\* lines 126-132
cb_Entry ==
    /\ cb.pc = "entry"
    /\ out' = Cleared(out, cb.frame_count)
    /\ IF EngineStopped(playing)
       THEN /\ cb' = [cb EXCEPT !.pc = "idle"]
            /\ hist' = [hist EXCEPT !.fast = TRUE]
       ELSE /\ cb' = [cb EXCEPT !.pc = "reset_master"]
            /\ UNCHANGED hist
    /\ CallbackStep
    /\ UNCHANGED <<tracks, master_peak, master_rms, filter_state_l,
                   filter_state_r, temp_left, temp_right, used>>

\* lines 135-138
cb_ResetMaster ==
    /\ cb.pc = "reset_master"
    /\ master_peak' = <<0, 0>>
    /\ master_rms' = <<0, 0>>
    /\ cb' = [cb EXCEPT !.pc = "solo_scan", !.t = 0, !.any_solo = FALSE]
    /\ UNCHANGED hist
    /\ CallbackStep
    /\ UNCHANGED <<tracks, filter_state_l, filter_state_r, temp_left,
                   temp_right, out, used>>

\* A solo test that passes over muted tracks.
IsSoloUnmuted(track) == track.solo /\ ~track.mute

\* line 143
IsSolo(track) == track.solo

\* lines 142-147: one iteration of the scan per step
cb_SoloScan ==
    /\ cb.pc = "solo_scan"
    /\ cb' = IF cb.t < track_count
             THEN IF IsSolo(Slot(tracks, cb.t))
                  THEN [cb EXCEPT !.any_solo = TRUE, !.pc = "mix_check", !.t = 0]
                  ELSE [cb EXCEPT !.t = @ + 1]
             ELSE [cb EXCEPT !.pc = "mix_check", !.t = 0]
    /\ hist' = IF cb.t < track_count THEN UsedTrack(hist, cb.t) ELSE hist
    /\ CallbackStep
    /\ UNCHANGED <<tracks, master_peak, master_rms, filter_state_l,
                   filter_state_r, temp_left, temp_right, out, used>>

\* A test that forgets the mute button.
SkipNotPlaying(track) == ~track.playing

\* line 153
SkipNotAudible(track) == track.mute \/ ~track.playing

\* A solo test with the negation lost.
SkipSoloed(any_solo, track) == any_solo /\ track.solo

\* line 155
SkipNotSoloed(any_solo, track) == any_solo /\ ~track.solo

\* A track loop that resets the meters of a track before it tests it.
cb_MixCheckResets ==
    /\ cb.pc = "mix_check"
    /\ cb' = IF cb.t < track_count
             THEN IF SkipNotAudible(Slot(tracks, cb.t))
                  THEN [cb EXCEPT !.t = @ + 1]
                  ELSE [cb EXCEPT !.pc = "solo_check"]
             ELSE [cb EXCEPT !.pc = "master", !.i = 0]
    /\ hist' = IF cb.t < track_count THEN UsedTrack(hist, cb.t) ELSE hist
    /\ tracks' = IF cb.t < track_count
                 THEN Put(tracks, cb.t,
                          [Slot(tracks, cb.t) EXCEPT !.peak_level = <<0, 0>>,
                                                     !.rms_level = <<0, 0>>])
                 ELSE tracks
    /\ CallbackStep
    /\ UNCHANGED <<master_peak, master_rms, filter_state_l,
                   filter_state_r, temp_left, temp_right, out, used>>

\* lines 150-153: the loop test and the mute/playing test of one track
cb_MixCheck ==
    /\ cb.pc = "mix_check"
    /\ cb' = IF cb.t < track_count
             THEN IF SkipNotAudible(Slot(tracks, cb.t))
                  THEN [cb EXCEPT !.t = @ + 1]
                  ELSE [cb EXCEPT !.pc = "solo_check"]
             ELSE [cb EXCEPT !.pc = "master", !.i = 0]
    /\ hist' = IF cb.t < track_count THEN UsedTrack(hist, cb.t) ELSE hist
    /\ CallbackStep
    /\ UNCHANGED <<tracks, master_peak, master_rms, filter_state_l,
                   filter_state_r, temp_left, temp_right, out, used>>

\* A solo test taken under a lock that the control context holds for the
\* length of an API call.
cb_SoloCheckLocked ==
    /\ cb.pc = "solo_check"
    /\ ctl.pc = "idle"
    /\ cb' = IF SkipNotSoloed(cb.any_solo, Slot(tracks, cb.t))
             THEN [cb EXCEPT !.pc = "mix_check", !.t = @ + 1]
             ELSE [cb EXCEPT !.pc = "reset_meters"]
    /\ UNCHANGED hist
    /\ CallbackStep
    /\ UNCHANGED <<tracks, master_peak, master_rms, filter_state_l,
                   filter_state_r, temp_left, temp_right, out, used>>

\* line 155
cb_SoloCheck ==
    /\ cb.pc = "solo_check"
    /\ cb' = IF SkipNotSoloed(cb.any_solo, Slot(tracks, cb.t))
             THEN [cb EXCEPT !.pc = "mix_check", !.t = @ + 1]
             ELSE [cb EXCEPT !.pc = "reset_meters"]
    /\ UNCHANGED hist
    /\ CallbackStep
    /\ UNCHANGED <<tracks, master_peak, master_rms, filter_state_l,
                   filter_state_r, temp_left, temp_right, out, used>>

\* lines 158-165
cb_ResetMeters ==
    /\ cb.pc = "reset_meters"
    /\ tracks' = Put(tracks, cb.t,
                      [Slot(tracks, cb.t) EXCEPT !.peak_level = <<0, 0>>,
                                                 !.rms_level = <<0, 0>>])
    /\ temp_left' = Unwritten(MaxFrames)
    /\ temp_right' = Unwritten(MaxFrames)
    /\ cb' = [cb EXCEPT !.pc = "generate", !.i = 0]
    /\ UNCHANGED hist
    /\ CallbackStep
    /\ UNCHANGED <<master_peak, master_rms, filter_state_l, filter_state_r,
                   out, used>>

\* An oscillator that does not look at the track's volume.
OscSampleFlat(track) == Mul(Sinf(track.phase), 300)

\* line 169
OscSample(track) == Mul(Mul(Sinf(track.phase), track.volume), 300)

\* lines 170-173
NextPhase(track) ==
    LET ph == track.phase + PhaseInc(track.frequency)
    IN  IF ph > TWO_PI THEN ph - TWO_PI ELSE ph

\* A pan law that keeps every track in the centre.
PanAngleCentre(pan) == 1

\* lines 176-178: (pan + 1.0F) * MA_PI / 4.0F in angle units
PanAngle(pan) == DivInt(pan + ONE, ONE)
LeftGain(pan) == Cosf(PanAngle(pan))
RightGain(pan) == Sinf(PanAngle(pan))

\* A generate loop that runs for one frame more than it was asked for.
cb_GenerateOneMore ==
    /\ cb.pc = "generate"
    /\ LET track == Slot(tracks, cb.t)
           sample == OscSample(track)
       IN  /\ tracks' = Put(tracks, cb.t,
                             [track EXCEPT !.phase = NextPhase(track)])
           /\ temp_left' = [temp_left EXCEPT ![cb.i + 1] =
                                Mul(sample, LeftGain(track.pan))]
           /\ temp_right' = [temp_right EXCEPT ![cb.i + 1] =
                                 Mul(sample, RightGain(track.pan))]
    /\ cb' = IF cb.i + 1 <= cb.frame_count
             THEN [cb EXCEPT !.i = @ + 1]
             ELSE [cb EXCEPT !.pc = "effects_gate", !.i = 0]
    /\ UNCHANGED hist
    /\ CallbackStep
    /\ UNCHANGED <<master_peak, master_rms, filter_state_l, filter_state_r,
                   out, used>>

\* lines 168-182: one sample per step
cb_Generate ==
    /\ cb.pc = "generate"
    /\ LET track == Slot(tracks, cb.t)
           sample == OscSample(track)
       IN  /\ tracks' = Put(tracks, cb.t,
                             [track EXCEPT !.phase = NextPhase(track)])
           /\ temp_left' = [temp_left EXCEPT ![cb.i + 1] =
                                Mul(sample, LeftGain(track.pan))]
           /\ temp_right' = [temp_right EXCEPT ![cb.i + 1] =
                                 Mul(sample, RightGain(track.pan))]
    /\ cb' = IF cb.i + 1 < cb.frame_count
             THEN [cb EXCEPT !.i = @ + 1]
             ELSE [cb EXCEPT !.pc = "effects_gate", !.i = 0]
    /\ UNCHANGED hist
    /\ CallbackStep
    /\ UNCHANGED <<master_peak, master_rms, filter_state_l, filter_state_r,
                   out, used>>


\* A chain that silences the track at an effect whose kind has no frame
\* loop.
cb_EffectLoopMutes ==
    /\ cb.pc \in {"effects_gate", "effect_loop"}
    /\ LET track == Slot(tracks, cb.t)
           enter == IF cb.pc = "effects_gate"
                    THEN track.effect_count > 0
                    ELSE cb.e < track.effect_count
           e == IF cb.pc = "effects_gate" THEN 0 ELSE cb.e
           type == EffectAt(track, e).type
       IN  /\ cb' = IF ~enter
                    THEN [cb EXCEPT !.pc = "mix_out", !.i = 0, !.e = 0]
                    ELSE IF HasFrameLoop(type)
                    THEN [cb EXCEPT !.pc = "effect_frames", !.e = e, !.i = 0,
                                    !.type = type]
                    ELSE [cb EXCEPT !.pc = "effect_loop", !.e = e + 1]
           /\ hist' = IF enter THEN AppliedEffect(UsedEffect(hist, e), type)
                                ELSE hist
           /\ IF enter /\ ~HasFrameLoop(type)
              THEN /\ temp_left' = ClearedMono(temp_left, cb.frame_count)
                   /\ temp_right' = ClearedMono(temp_right, cb.frame_count)
              ELSE UNCHANGED <<temp_left, temp_right>>
    /\ CallbackStep
    /\ UNCHANGED <<tracks, master_peak, master_rms, filter_state_l,
                   filter_state_r, out, used>>

\* line 185, and the loop test and switch of lines 77-80: one effect per
\* step; a kind without a frame loop is passed over in the same step
cb_EffectLoop ==
    /\ cb.pc \in {"effects_gate", "effect_loop"}
    /\ LET track == Slot(tracks, cb.t)
           enter == IF cb.pc = "effects_gate"
                    THEN track.effect_count > 0
                    ELSE cb.e < track.effect_count
           e == IF cb.pc = "effects_gate" THEN 0 ELSE cb.e
           type == EffectAt(track, e).type
       IN  /\ cb' = IF ~enter
                    THEN [cb EXCEPT !.pc = "mix_out", !.i = 0, !.e = 0]
                    ELSE IF HasFrameLoop(type)
                    THEN [cb EXCEPT !.pc = "effect_frames", !.e = e, !.i = 0,
                                    !.type = type]
                    ELSE [cb EXCEPT !.pc = "effect_loop", !.e = e + 1]
           /\ hist' = IF enter THEN AppliedEffect(UsedEffect(hist, e), type)
                                ELSE hist
    /\ CallbackStep
    /\ UNCHANGED <<tracks, master_peak, master_rms, filter_state_l,
                   filter_state_r, temp_left, temp_right, out, used>>

\* lines 82-100: one frame of the case's loop per step
cb_EffectFrame ==
    /\ cb.pc = "effect_frames"
    /\ LET effect == EffectAt(Slot(tracks, cb.t), cb.e)
           l == ProcessSample(cb.type, temp_left[cb.i + 1], effect,
                              FilterState(filter_state_l, cb.t))
           r == ProcessSample(cb.type, temp_right[cb.i + 1], effect,
                              FilterState(filter_state_r, cb.t))
       IN  /\ temp_left' = [temp_left EXCEPT ![cb.i + 1] = l[1]]
           /\ temp_right' = [temp_right EXCEPT ![cb.i + 1] = r[1]]
           /\ filter_state_l' = PutFilterState(filter_state_l, cb.t, l[2])
           /\ filter_state_r' = PutFilterState(filter_state_r, cb.t, r[2])
    /\ cb' = IF cb.i + 1 < cb.frame_count
             THEN [cb EXCEPT !.i = @ + 1]
             ELSE [cb EXCEPT !.pc = "effect_loop", !.e = @ + 1, !.i = 0,
                             !.type = 0]
    /\ UNCHANGED hist
    /\ CallbackStep
    /\ UNCHANGED <<tracks, master_peak, master_rms, out, used>>

\* lines 195-200 and 213-220: the meter pair after one more sample
PeakAfter(peak, sample) == IF Abs(sample) > peak THEN Abs(sample) ELSE peak
SumSqAfter(acc, sample) == acc + Mul(sample, sample)

\* A mean that multiplies by the frame count.
FinalRmsTimesCount(acc, frame_count) == Sqrtf(acc * frame_count)

\* lines 204-205 and 223-224
FinalRms(acc, frame_count) == Sqrtf(DivInt(acc, frame_count))

\* A mix that stores each track's samples over the output instead of adding
\* them to it.
cb_MixOutOverwrite ==
    /\ cb.pc = "mix_out"
    /\ LET l == temp_left[cb.i + 1]
           r == temp_right[cb.i + 1]
           track == Slot(tracks, cb.t)
       IN  /\ out' = [out EXCEPT ![cb.i * 2 + 1] = l,
                                 ![cb.i * 2 + 2] = r]
           /\ tracks' = Put(tracks, cb.t, [track EXCEPT
                  !.peak_level = <<PeakAfter(track.peak_level[1], l),
                                   PeakAfter(track.peak_level[2], r)>>,
                  !.rms_level = <<SumSqAfter(track.rms_level[1], l),
                                  SumSqAfter(track.rms_level[2], r)>>])
    /\ cb' = IF cb.i + 1 < cb.frame_count
             THEN [cb EXCEPT !.i = @ + 1]
             ELSE [cb EXCEPT !.pc = "finalize", !.i = 0]
    /\ hist' = [hist EXCEPT !.mixed = @ \cup {cb.t}]
    /\ CallbackStep
    /\ UNCHANGED <<master_peak, master_rms, filter_state_l, filter_state_r,
                   temp_left, temp_right, used>>

\* lines 190-201: one frame per step
cb_MixOut ==
    /\ cb.pc = "mix_out"
    /\ LET l == temp_left[cb.i + 1]
           r == temp_right[cb.i + 1]
           track == Slot(tracks, cb.t)
       IN  /\ out' = [out EXCEPT ![cb.i * 2 + 1] = @ + l,
                                 ![cb.i * 2 + 2] = @ + r]
           /\ tracks' = Put(tracks, cb.t, [track EXCEPT
                  !.peak_level = <<PeakAfter(track.peak_level[1], l),
                                   PeakAfter(track.peak_level[2], r)>>,
                  !.rms_level = <<SumSqAfter(track.rms_level[1], l),
                                  SumSqAfter(track.rms_level[2], r)>>])
    /\ cb' = IF cb.i + 1 < cb.frame_count
             THEN [cb EXCEPT !.i = @ + 1]
             ELSE [cb EXCEPT !.pc = "finalize", !.i = 0]
    /\ hist' = [hist EXCEPT !.mixed = @ \cup {cb.t}]
    /\ CallbackStep
    /\ UNCHANGED <<master_peak, master_rms, filter_state_l, filter_state_r,
                   temp_left, temp_right, used>>

\* A callback that stops a track once it has mixed it.
cb_FinalizeStopsTrack ==
    /\ cb.pc = "finalize"
    /\ tracks' = Put(tracks, cb.t,
                      [Slot(tracks, cb.t) EXCEPT
                          !.rms_level = <<FinalRms(@[1], cb.frame_count),
                                          FinalRms(@[2], cb.frame_count)>>,
                          !.playing = FALSE])
    /\ cb' = [cb EXCEPT !.pc = "mix_check", !.t = @ + 1]
    /\ temp_left' = Unwritten(MaxFrames)
    /\ temp_right' = Unwritten(MaxFrames)
    /\ UNCHANGED hist
    /\ CallbackStep
    /\ UNCHANGED <<master_peak, master_rms, filter_state_l, filter_state_r,
                   out, used>>

\* lines 204-206, then t++
cb_Finalize ==
    /\ cb.pc = "finalize"
    /\ tracks' = Put(tracks, cb.t,
                      [Slot(tracks, cb.t) EXCEPT !.rms_level =
                          <<FinalRms(@[1], cb.frame_count),
                            FinalRms(@[2], cb.frame_count)>>])
    /\ cb' = [cb EXCEPT !.pc = "mix_check", !.t = @ + 1]
    /\ temp_left' = Unwritten(MaxFrames)
    /\ temp_right' = Unwritten(MaxFrames)
    /\ UNCHANGED hist
    /\ CallbackStep
    /\ UNCHANGED <<master_peak, master_rms, filter_state_l, filter_state_r,
                   out, used>>

\* A master stage that meters the output without scaling it.
cb_MasterUnscaled ==
    /\ cb.pc = "master"
    /\ LET l == out[cb.i * 2 + 1]
           r == out[cb.i * 2 + 2]
       IN  /\ master_peak' = <<PeakAfter(master_peak[1], l),
                               PeakAfter(master_peak[2], r)>>
           /\ master_rms' = <<SumSqAfter(master_rms[1], l),
                              SumSqAfter(master_rms[2], r)>>
    /\ cb' = IF cb.i + 1 < cb.frame_count
             THEN [cb EXCEPT !.i = @ + 1]
             ELSE [cb EXCEPT !.pc = "master_finalize", !.i = 0]
    /\ UNCHANGED <<hist, out>>
    /\ CallbackStep
    /\ UNCHANGED <<tracks, filter_state_l, filter_state_r, temp_left,
                   temp_right, used>>

\* lines 209-221: one frame per step
cb_Master ==
    /\ cb.pc = "master"
    /\ LET l == Mul(out[cb.i * 2 + 1], master_volume)
           r == Mul(out[cb.i * 2 + 2], master_volume)
       IN  /\ out' = [out EXCEPT ![cb.i * 2 + 1] = l, ![cb.i * 2 + 2] = r]
           /\ master_peak' = <<PeakAfter(master_peak[1], l),
                               PeakAfter(master_peak[2], r)>>
           /\ master_rms' = <<SumSqAfter(master_rms[1], l),
                              SumSqAfter(master_rms[2], r)>>
    /\ cb' = IF cb.i + 1 < cb.frame_count
             THEN [cb EXCEPT !.i = @ + 1]
             ELSE [cb EXCEPT !.pc = "master_finalize", !.i = 0]
    /\ UNCHANGED hist
    /\ CallbackStep
    /\ UNCHANGED <<tracks, filter_state_l, filter_state_r, temp_left,
                   temp_right, used>>

\* lines 223-225
cb_MasterFinalize ==
    /\ cb.pc = "master_finalize"
    /\ master_rms' = <<FinalRms(master_rms[1], cb.frame_count),
                       FinalRms(master_rms[2], cb.frame_count)>>
    /\ cb' = [cb EXCEPT !.pc = "idle", !.t = 0, !.any_solo = FALSE]
    /\ UNCHANGED hist
    /\ CallbackStep
    /\ UNCHANGED <<tracks, master_peak, filter_state_l, filter_state_r,
                   temp_left, temp_right, out, used>>

\* Every step of audio_callback after its invocation.
cb_Step ==
    \/ cb_Entry
    \/ cb_ResetMaster
    \/ cb_SoloScan
    \/ cb_MixCheck
    \/ cb_SoloCheck
    \/ cb_ResetMeters
    \/ cb_Generate
    \/ cb_EffectLoop
    \/ cb_EffectFrame
    \/ cb_MixOut
    \/ cb_Finalize
    \/ cb_Master
    \/ cb_MasterFinalize


(***************************************************************************)
(* Sessions: the engine as a run of the API leaves it.                     *)
(***************************************************************************)
\* audio_engine_add_track run to its return on one slot.
RECURSIVE RunAddTrack(_, _, _, _)
RunAddTrack(pc, tr, name, frequency) ==
    IF pc = "idle" THEN tr
    ELSE RunAddTrack(AddTrackAfter(pc), AddTrackStore(pc, tr, name, frequency),
                     name, frequency)

NewTrack(name, frequency) ==
    RunAddTrack("add_track_name", ZeroTrack, name, frequency)

\* audio_engine_add_effect run to its return on one slot.
RECURSIVE RunAddEffect(_, _, _)
RunAddEffect(pc, eff, type) ==
    IF pc = "idle" THEN eff
    ELSE RunAddEffect(AddEffectAfter(pc, type), AddEffectStore(pc, eff, type),
                      type)

NewEffect(type) == RunAddEffect("add_effect_type", ZeroEffect, type)

\* A track after n calls of audio_engine_add_effect of one kind.
WithEffects(track, n, type) ==
    [track EXCEPT !.effects = [e \in 0 .. (n - 1) |-> NewEffect(type)],
                  !.effect_count = n]

\* The engine after a successful audio_engine_init, with the device running,
\* the given tracks added and the master play button in the given position.
Session(trs, n, play) ==
    /\ tracks = trs
    /\ track_count = n
    /\ master_volume = 750
    /\ master_peak = <<0, 0>>
    /\ master_rms = <<0, 0>>
    /\ playing = play
    /\ initialized = TRUE
    /\ device = "started"
    /\ filter_state_l = [t \in {} |-> 0]
    /\ filter_state_r = [t \in {} |-> 0]
    /\ ctl = CtlIdle
    /\ ret_add_track = n - 1
    /\ ret_init = TRUE
    /\ cb = CbIdle
    /\ temp_left = Unwritten(MaxFrames)
    /\ temp_right = Unwritten(MaxFrames)
    /\ out = Unwritten(CHANNELS * MaxFrames)
    /\ hist = HistIdle
    /\ used = UsedNone

(***************************************************************************)
(* Life-cycle specification: from "AudioEngine engine = {0}", the control  *)
(* context initialises the engine, adds tracks and gain effects, presses   *)
(* the play buttons, shuts the engine down and initialises it again, while *)
(* the sink runs the callback whenever the device is started.              *)
(***************************************************************************)
Next ==
    \/ (used.inits < MaxInits /\ init_Call)
    \/ init_Setup
    \/ \E ok \in BOOLEAN : init_Device(ok)
    \/ \E ok \in BOOLEAN : init_Start(ok)
    \/ init_Store
    \/ shutdown_Call
    \/ shutdown_Check
    \/ shutdown_Stop
    \/ shutdown_Uninit
    \/ shutdown_Store
    \/ (used.calls < MaxCalls /\ \E name \in Names, frequency \in Freqs :
            add_track_Call(name, frequency))
    \/ add_track_Check
    \/ add_track_Store
    \/ (used.calls < MaxCalls /\ add_effect_Call(0, EFFECT_GAIN))
    \/ add_effect_Check
    \/ add_effect_Store
    \/ (used.toggles < MaxToggles /\ toggle_track_playing(0))
    \/ (used.toggles < MaxToggles /\ toggle_master_play)
    \/ (used.periods < MaxPeriods /\ cb_Invoke(MaxFrames))
    \/ cb_Step

Spec == Init /\ [][Next]_vars

(***************************************************************************)
(* Mixing specification: a session of MixTracks tracks with the mute, solo *)
(* and play buttons in any position (every position is reached by the      *)
(* toggles of ui_handle_interactions), track 0 with one effect.  The       *)
(* control context presses buttons while the sink runs the callback.       *)
(***************************************************************************)
MixIdx == 0 .. (MixTracks - 1)

\* Track t of the session: the oscillators differ in frequency.
MixTrack(t, mute, solo, play) ==
    LET frequency == IF t = 0 THEN 6000 ELSE 18000
        track == [NewTrack("Bass", frequency) EXCEPT !.mute = mute,
                                                      !.solo = solo,
                                                      !.playing = play]
    IN  IF t = 0 THEN WithEffects(track, 1, EFFECT_GAIN) ELSE track

InitMix ==
    \E mute \in [MixIdx -> BOOLEAN], solo \in [MixIdx -> BOOLEAN],
       play \in [MixIdx -> BOOLEAN], master \in BOOLEAN :
        Session([t \in MixIdx |-> MixTrack(t, mute[t], solo[t], play[t])],
                MixTracks, master)

NextMix ==
    \/ (used.toggles < MixToggles /\ \E t \in MixIdx : toggle_track_playing(t))
    \/ (used.toggles < MixToggles /\ \E t \in MixIdx : toggle_track_mute(t))
    \/ (used.toggles < MixToggles /\ \E t \in MixIdx : toggle_track_solo(t))
    \/ (used.toggles < MixToggles /\ toggle_master_play)
    \/ (used.periods < MixPeriods /\ cb_Invoke(MaxFrames))
    \/ cb_Step

SpecMix == InitMix /\ [][NextMix]_vars

(***************************************************************************)
(* Capacity specification: a session with one free slot left in tracks[]   *)
(* and in the effect chain of track 0, or with both full; track 0 is       *)
(* playing.  The control context calls the track and effect API while the  *)
(* sink runs the callback.                                                 *)
(***************************************************************************)
CapTrack(t, chain) ==
    LET track == NewTrack("Bass", 6000)
    IN  IF t = 0
        THEN [WithEffects(track, chain, EFFECT_GAIN) EXCEPT !.playing = TRUE]
        ELSE track

InitCap ==
    \E free \in {0, 1} :
        LET n == MAX_TRACKS - free
            chain == MAX_EFFECTS_PER_TRACK - free
        IN  Session([t \in 0 .. (n - 1) |-> CapTrack(t, chain)], n, TRUE)

\* Effect indices the control context passes for track 0: the first, one
\* past the end of the chain as it is, and a negative one.
CapIndices == {0, Slot(tracks, 0).effect_count, -1}

NextCap ==
    \/ (used.calls < CapCalls /\ add_track_Call("Lead", 18000))
    \/ add_track_Check
    \/ add_track_Store
    \/ (used.calls < CapCalls /\ add_effect_Call(0, EFFECT_GAIN))
    \/ add_effect_Check
    \/ add_effect_Store
    \/ (used.calls < CapCalls /\ \E e \in CapIndices : remove_effect_Call(0, e))
    \/ remove_effect_Check
    \/ remove_effect_Shift
    \/ (used.calls < CapCalls /\ \E e \in CapIndices : toggle_effect_Call(0, e))
    \/ toggle_effect_Body
    \/ (used.calls < CapCalls /\ \E param_index \in {0, 1} :
            set_effect_param_Call(0, 0, param_index, 500))
    \/ set_effect_param_Body
    \/ (used.periods < CapPeriods /\ cb_Invoke(MaxFrames))
    \/ cb_Step

SpecCap == InitCap /\ [][NextCap]_vars

(***************************************************************************)
(* Effects specification: a session of one playing track whose chain holds *)
(* up to FxChain effects of any kinds.  The control context adds effects,  *)
(* sets parameters and toggles the first effect while the sink runs the    *)
(* callback.                                                               *)
(***************************************************************************)
FxTypes == EFFECT_NONE .. EFFECT_REVERB

\* A track after one audio_engine_add_effect per kind of the list.
WithKinds(track, kinds) ==
    [track EXCEPT !.effects = [e \in DOMAIN kinds |-> NewEffect(kinds[e])],
                  !.effect_count = Cardinality(DOMAIN kinds)]

InitFx ==
    \E n \in 0 .. FxChain : \E kinds \in [0 .. (n - 1) -> FxTypes] :
        Session([t \in {0} |->
                    WithKinds([NewTrack("Bass", 6000) EXCEPT !.playing = TRUE],
                              kinds)],
                1, TRUE)

NextFx ==
    \/ (used.calls < FxCalls /\ \E type \in {EFFECT_GAIN, EFFECT_LOWPASS} :
            add_effect_Call(0, type))
    \/ add_effect_Check
    \/ add_effect_Store
    \/ (used.calls < FxCalls /\ \E e \in 0 .. (FxChain - 1),
                                    param_index \in -1 .. 3 :
            set_effect_param_Call(0, e, param_index, 0))
    \/ (used.calls < FxCalls /\ set_effect_param_Call(0, 0, 0, 500))
    \/ set_effect_param_Body
    \/ (used.calls < FxCalls /\ toggle_effect_Call(0, 0))
    \/ toggle_effect_Body
    \/ (used.periods < FxPeriods /\ cb_Invoke(MaxFrames))
    \/ cb_Step

SpecFx == InitFx /\ [][NextFx]_vars

(***************************************************************************)
(* Control-surface specification: a session of one playing track with a    *)
(* low-pass filter in its chain.  The control context makes any call of    *)
(* the API, shutdown and a new init included, while the sink runs the      *)
(* callback.                                                               *)
(***************************************************************************)
InitSurf ==
    Session([t \in {0} |->
                WithKinds([NewTrack("Bass", 6000) EXCEPT !.playing = TRUE],
                          [e \in {0} |-> EFFECT_LOWPASS])],
            1, TRUE)

NextSurf ==
    \/ (used.inits < SurfInits /\ init_Call)
    \/ init_Setup
    \/ \E ok \in BOOLEAN : init_Device(ok)
    \/ \E ok \in BOOLEAN : init_Start(ok)
    \/ init_Store
    \/ shutdown_Call
    \/ shutdown_Check
    \/ shutdown_Stop
    \/ shutdown_Uninit
    \/ shutdown_Store
    \/ (used.calls < SurfCalls /\ add_track_Call("Lead", 18000))
    \/ add_track_Check
    \/ add_track_Store
    \/ (used.calls < SurfCalls /\ add_effect_Call(0, EFFECT_HIGHPASS))
    \/ add_effect_Check
    \/ add_effect_Store
    \/ (used.calls < SurfCalls /\ remove_effect_Call(0, 0))
    \/ remove_effect_Check
    \/ remove_effect_Shift
    \/ (used.calls < SurfCalls /\ toggle_effect_Call(0, 0))
    \/ toggle_effect_Body
    \/ (used.calls < SurfCalls /\ set_effect_param_Call(0, 0, 0, 500))
    \/ set_effect_param_Body
    \/ (used.periods < SurfPeriods /\ cb_Invoke(MaxFrames))
    \/ cb_Step

SpecSurf == InitSurf /\ [][NextSurf]_vars

(***************************************************************************)
(* Chain-editing specification: a session of one playing track with a      *)
(* high-pass filter and a gain in its chain.  The control context appends  *)
(* effects of every kind and removes effects while the sink runs the       *)
(* callback.                                                               *)
(***************************************************************************)
EditChain == [e \in {0, 1} |-> IF e = 0 THEN EFFECT_HIGHPASS ELSE EFFECT_GAIN]

InitEdit ==
    Session([t \in {0} |->
                WithKinds([NewTrack("Bass", 6000) EXCEPT !.playing = TRUE],
                          EditChain)],
            1, TRUE)

NextEdit ==
    \/ (used.calls < EditCalls /\ \E type \in EFFECT_GAIN .. EFFECT_REVERB :
            add_effect_Call(0, type))
    \/ add_effect_Check
    \/ add_effect_Store
    \/ (used.calls < EditCalls /\ \E e \in {0, 1} : remove_effect_Call(0, e))
    \/ remove_effect_Check
    \/ remove_effect_Shift
    \/ (used.periods < EditPeriods /\ cb_Invoke(MaxFrames))
    \/ cb_Step

SpecEdit == InitEdit /\ [][NextEdit]_vars

(***************************************************************************)
(* Signal-path specification: the callback as a function of the mix        *)
(* controls.  A session holds two tracks of the same frequency, pan and    *)
(* effect chain; track 0 has volume v and track 1 volume k * v, both in    *)
(* the range 0.0 to 1.0 of the volume field, and the pan is one of the     *)
(* ends or the centre of its range -1.0 to 1.0.  Track 0 plays; track 1    *)
(* plays or not.  The sink runs the callback; no API call is made.         *)
(***************************************************************************)
ToneVolumes == {250, 500}
ToneFactors == {0, 1, 2}
TonePans == {-ONE, 0, ONE}
ToneTypes == {EFFECT_GAIN, EFFECT_LOWPASS, EFFECT_HIGHPASS}

ToneTrack(name, volume, pan, kinds, play) ==
    WithKinds([NewTrack(name, 6000) EXCEPT !.volume = volume, !.pan = pan,
                                           !.playing = play],
              kinds)

InitTone ==
    \E v \in ToneVolumes, k \in ToneFactors, pan \in TonePans, both \in BOOLEAN :
        \E n \in 0 .. ToneChain : \E kinds \in [0 .. (n - 1) -> ToneTypes] :
            Session([t \in {0, 1} |->
                        IF t = 0 THEN ToneTrack("Bass", v, pan, kinds, TRUE)
                        ELSE ToneTrack("Lead", k * v, pan, kinds, both)],
                    2, TRUE)

NextTone ==
    \/ (used.periods < TonePeriods /\ cb_Invoke(MaxFrames))
    \/ cb_Step

SpecTone == InitTone /\ [][NextTone]_vars

(***************************************************************************)
(* Two-period specification: a playing session of two playing tracks.  The *)
(* control context toggles a mute, playing or solo flag or the master play *)
(* flag while the sink runs the callback for two periods, so that a track  *)
(* mixed in one period can be passed over in the next.  The sink, set up   *)
(* with periodSizeInFrames = BUFFER_SIZE and callbacks of fixed size, asks *)
(* for any number of frames from 1 to the period size.                     *)
(***************************************************************************)
InitSkip ==
    Session([t \in {0, 1} |-> MixTrack(t, FALSE, FALSE, TRUE)], 2, TRUE)

NextSkip ==
    \/ (used.toggles < SkipToggles /\ \E t \in {0, 1} : toggle_track_playing(t))
    \/ (used.toggles < SkipToggles /\ \E t \in {0, 1} : toggle_track_mute(t))
    \/ (used.toggles < SkipToggles /\ \E t \in {0, 1} : toggle_track_solo(t))
    \/ (used.toggles < SkipToggles /\ toggle_master_play)
    \/ (used.periods < SkipPeriods /\ \E n \in 1 .. MaxFrames : cb_Invoke(n))
    \/ cb_Step

SpecSkip == InitSkip /\ [][NextSkip]_vars

(***************************************************************************)
(* The solo buttons alone: two tracks that are playing and not muted, with *)
(* any solo flags, and a control context that only presses solo buttons    *)
(* while the sink runs the callback.                                       *)
(***************************************************************************)
InitSolo ==
    \E solo \in [{0, 1} -> BOOLEAN] :
        Session([t \in {0, 1} |-> MixTrack(t, FALSE, solo[t], TRUE)], 2, TRUE)

NextSolo ==
    \/ (used.toggles < SoloToggles /\ \E t \in {0, 1} : toggle_track_solo(t))
    \/ (used.periods < SoloPeriods /\ cb_Invoke(MaxFrames))
    \/ cb_Step

SpecSolo == InitSolo /\ [][NextSolo]_vars

(***************************************************************************)
(* Filter specification: process_lowpass_effect and                        *)
(* process_highpass_effect as functions of a sample, a cutoff and the      *)
(* carried state.  A session holds one track with one enabled filter of    *)
(* either kind and a cutoff above 0; each step puts one sample of          *)
(* magnitude at most 1.0 through the filter, in place, for a run of any    *)
(* length.                                                                 *)
(***************************************************************************)
FilterCutoffs == {1, 500, ONE, 1000 * ONE}
FilterInputs == {-ONE, -500, 0, 500, ONE}

InitFilter ==
    \E type \in {EFFECT_LOWPASS, EFFECT_HIGHPASS}, cutoff \in FilterCutoffs :
        LET track == WithKinds(NewTrack("Bass", 6000), [e \in {0} |-> type])
        IN  Session([t \in {0} |->
                        PutEffect(track, 0,
                                  [EffectAt(track, 0) EXCEPT !.p0 = cutoff])],
                    1, TRUE)

\* lines 89-99: left[f] = process_..._effect(left[f], effect, &state) on a
\* sample x
filter_Sample(x) ==
    /\ LET effect == EffectAt(Slot(tracks, 0), 0)
           l == ProcessSample(effect.type, x, effect,
                              FilterState(filter_state_l, 0))
       IN  /\ temp_left' = [temp_left EXCEPT ![1] = l[1]]
           /\ filter_state_l' = PutFilterState(filter_state_l, 0, l[2])
    /\ UNCHANGED <<tracks, track_count, master_volume, master_peak, master_rms,
                   playing, initialized, device, filter_state_r, ctl,
                   ret_add_track, ret_init, cb, temp_right, out, hist, used>>

NextFilter == \E x \in FilterInputs : filter_Sample(x)

SpecFilter == InitFilter /\ [][NextFilter]_vars

(***************************************************************************)
(* Properties                                                              *)
(***************************************************************************)

\* C1: in every state reached by interleaving the track and effect API with
\* the callback, 0 <= track_count <= MAX_TRACKS and every track has
\* 0 <= effect_count <= MAX_EFFECTS_PER_TRACK.
CountsWithinCapacity ==
    /\ track_count \in 0 .. MAX_TRACKS
    /\ \A t \in TrackIdx :
          Slot(tracks, t).effect_count \in 0 .. MAX_EFFECTS_PER_TRACK

\* Both arrays are full after API calls made while a period has run.
CountsAtCapacity ==
    /\ track_count = MAX_TRACKS
    /\ Slot(tracks, 0).effect_count = MAX_EFFECTS_PER_TRACK
    /\ used.calls = CapCalls
    /\ used.periods > 0
    /\ ctl.pc = "idle"

\* C2: audio_engine_add_track called with track_count = MAX_TRACKS returns
\* -1 and changes neither track_count nor any field of any track.
AddTrackAtCapacityRejected ==
    [][(ctl.pc = "add_track" /\ track_count = MAX_TRACKS /\ ctl' # ctl)
          => /\ ctl'.pc = "idle"
             /\ ret_add_track' = NO_TRACK
             /\ track_count' = track_count
             /\ tracks' = tracks]_vars

\* A call at capacity has returned while the callback was running.
AddTrackRejectedState ==
    /\ used.rejected = "add_track"
    /\ ret_add_track = NO_TRACK
    /\ track_count = MAX_TRACKS
    /\ ctl.pc = "idle"
    /\ cb.pc # "idle"

\* The samples of the period's buffer are all zero.
OutSilent == \A k \in 1 .. (CHANNELS * cb.frame_count) : out[k] = 0

\* C3: a track whose mute flag is set all through a period adds nothing to
\* the output buffer in that period, whatever its solo flag, playing flag,
\* volume, pan and effect chain are.
MuteDominance == hist.muted \cap hist.mixed = {}

\* A period has mixed a track into a non-silent buffer and passed over a
\* muted track that is playing and soloed.
MutedTrackPassedOver ==
    /\ cb.pc = "master"
    /\ hist.mixed # {}
    /\ ~OutSilent
    /\ \E t \in hist.muted : Slot(tracks, t).playing /\ Slot(tracks, t).solo

\* C4: in a period all through which some track below track_count has its
\* solo flag set, a track whose solo flag is clear all through the period
\* adds nothing to the output buffer, even if playing and unmuted.
SoloExclusivity == hist.soloed # {} => hist.unsoloed \cap hist.mixed = {}

\* A period has mixed a soloed track and passed over a playing, unmuted track
\* that is not soloed.
UnsoloedTrackPassedOver ==
    /\ cb.pc = "master"
    /\ hist.soloed \cap hist.mixed # {}
    /\ ~OutSilent
    /\ \E t \in hist.unsoloed :
          Slot(tracks, t).playing /\ ~Slot(tracks, t).mute

\* C5: a period that finds the engine's playing flag false writes zero to
\* all frame_count * CHANNELS samples and returns, whatever the tracks'
\* states are.
SilenceOnStop ==
    [][(cb.pc = "entry" /\ ~playing /\ cb' # cb)
          => /\ cb'.pc = "idle"
             /\ \A k \in 1 .. (CHANNELS * cb.frame_count) : out'[k] = 0]_vars

\* A period has returned on the stopped path with a playing, unmuted track
\* in the session.
StoppedPeriodReturned ==
    /\ cb.pc = "idle"
    /\ hist.fast
    /\ ~playing
    /\ OutSilent
    /\ \E t \in MixIdx : Slot(tracks, t).playing /\ ~Slot(tracks, t).mute

\* Every track's solo flag kept its position all through the period, some
\* track is soloed, and every soloed track is muted all through the period.
OnlyMutedSolos ==
    /\ hist.soloed # {}
    /\ \A t \in 0 .. (track_count - 1) : t \in hist.soloed \cup hist.unsoloed
    /\ hist.soloed \subseteq hist.muted

\* C6: if at least one track is soloed and every soloed track is muted, the
\* whole output of the period is zero, however many tracks that are not
\* soloed are playing and unmuted.
MuteWinsOverSolo ==
    (cb.pc # "entry" /\ OnlyMutedSolos) => (hist.mixed = {} /\ OutSilent)

\* A period has ended silent with the only soloed tracks muted and a track
\* that is not soloed playing and unmuted.
MutedSoloPeriodEnded ==
    /\ cb.pc = "idle"
    /\ used.periods > 0
    /\ ~hist.fast
    /\ OnlyMutedSolos
    /\ OutSilent
    /\ \E t \in hist.unsoloed :
          Slot(tracks, t).playing /\ ~Slot(tracks, t).mute

\* Steps of one track's pass through the mix loop, at most: the two tests,
\* the meter reset, frame_count samples generated, every effect slot entered
\* and run over frame_count frames, the chain's exit test, frame_count frames
\* mixed and the meters finished.
TrackSteps(frame_count) ==
    5 + 2 * frame_count + MAX_EFFECTS_PER_TRACK * (1 + frame_count)

\* Steps left, at most, when the mix loop tests track t.
MixRank(t, frame_count) ==
    (MAX_TRACKS - t) * TrackSteps(frame_count) + frame_count + 2

\* Steps left, at most, when the effect loop tests effect e of track t.
EffectRank(t, e, frame_count) ==
    MixRank(t + 1, frame_count) + frame_count + 2
        + (MAX_EFFECTS_PER_TRACK - e) * (1 + frame_count)

\* Steps the callback has left, at most, from its present position.
Rank ==
    LET n == cb.frame_count
    IN  CASE cb.pc = "idle" -> 0
          [] cb.pc = "entry" -> MAX_TRACKS + 3 + MixRank(0, n)
          [] cb.pc = "reset_master" -> MAX_TRACKS + 2 + MixRank(0, n)
          [] cb.pc = "solo_scan" -> (MAX_TRACKS - cb.t) + 1 + MixRank(0, n)
          [] cb.pc = "mix_check" -> MixRank(cb.t, n)
          [] cb.pc = "solo_check" -> MixRank(cb.t, n) - 1
          [] cb.pc = "reset_meters" -> MixRank(cb.t, n) - 2
          [] cb.pc = "generate" -> MixRank(cb.t, n) - 3 - cb.i
          [] cb.pc = "effects_gate" -> EffectRank(cb.t, 0, n)
          [] cb.pc = "effect_loop" -> EffectRank(cb.t, cb.e, n)
          [] cb.pc = "effect_frames" -> EffectRank(cb.t, cb.e, n) - 1 - cb.i
          [] cb.pc = "mix_out" -> MixRank(cb.t + 1, n) + 1 + (n - cb.i)
          [] cb.pc = "finalize" -> MixRank(cb.t + 1, n) + 1
          [] cb.pc = "master" -> (n - cb.i) + 1
          [] cb.pc = "master_finalize" -> 1

\* Steps of one invocation, at most.
Budget(frame_count) == MAX_TRACKS + 3 + MixRank(0, frame_count)

\* C7: the callback never blocks and always terminates: whatever the control
\* context is doing, a running callback has a step to take, and each of its
\* steps brings it closer to its return, which is at most
\* Budget(frame_count) steps away (a bound in MAX_TRACKS,
\* MAX_EFFECTS_PER_TRACK and frame_count only).
CallbackNeverBlocksAndTerminates ==
    /\ [](cb.pc # "idle" => ENABLED cb_Step)
    /\ [](Rank \in 0 .. Budget(cb.frame_count))
    /\ [][(cb.pc # "idle" /\ cb' # cb) => Rank' < Rank]_vars
    /\ [][cb' = cb => Rank' = Rank]_vars

\* A callback is about to return from a period over full arrays in which it
\* ran the last effect slot, while an API call is in progress.
FullPeriodDuringCall ==
    /\ cb.pc = "master_finalize"
    /\ track_count = MAX_TRACKS
    /\ hist.track_index = MAX_TRACKS - 1
    /\ hist.effect_index = MAX_EFFECTS_PER_TRACK - 1
    /\ ctl.pc # "idle"

\* C8: while audio_engine_add_track, audio_engine_add_effect and
\* audio_engine_remove_effect run, every index the callback uses into
\* tracks[] is below MAX_TRACKS and every index it uses into a track's
\* effects[] is below MAX_EFFECTS_PER_TRACK.
CallbackIndicesInBounds ==
    /\ hist.track_index < MAX_TRACKS
    /\ hist.effect_index < MAX_EFFECTS_PER_TRACK
    /\ cb.pc \in {"solo_check", "reset_meters", "generate", "effects_gate",
                  "effect_loop", "effect_frames", "mix_out", "finalize"}
          => cb.t < MAX_TRACKS
    /\ cb.pc = "effect_frames" => cb.e < MAX_EFFECTS_PER_TRACK

\* The callback has used the last slot of both arrays while the call that
\* fills the last track slot is storing into it.
LastSlotsUsedDuringAdd ==
    /\ ctl.pc \in AddTrackPcs
    /\ ctl.index = MAX_TRACKS - 1
    /\ hist.track_index = ctl.index
    /\ hist.effect_index = MAX_EFFECTS_PER_TRACK - 1

\* The defaults of a new track.
HasDefaults(track, frequency) ==
    /\ track.volume = 750
    /\ track.pan = 0
    /\ ~track.mute /\ ~track.solo /\ ~track.armed
    /\ track.frequency = frequency
    /\ track.phase = 0
    /\ track.effect_count = 0
    /\ ~track.playing

\* C9: a successful audio_engine_add_track takes the previous track_count as
\* the new index and returns it, increases track_count by exactly 1, leaves
\* the new track with volume 0.75, pan 0, mute, solo and armed false,
\* phase 0, effect_count 0, playing false and the caller's frequency, and
\* leaves every other track as it was.
AddTrackDefaults ==
    [][/\ (ctl.pc = "add_track" /\ track_count < MAX_TRACKS /\ ctl' # ctl)
            => /\ ctl'.index = track_count
               /\ track_count' = track_count + 1
               /\ tracks' = tracks
       /\ (ctl.pc \in AddTrackPcs /\ ctl' # ctl)
            => /\ track_count' = track_count
               /\ \A t \in TrackIdx \ {ctl.index} :
                     Slot(tracks', t) = Slot(tracks, t)
       /\ (ctl.pc = "add_track_playing" /\ ctl' # ctl)
            => /\ ret_add_track' = ctl.index
               /\ HasDefaults(Slot(tracks', ctl.index), ctl.arg)]_vars

\* C10: audio_engine_add_effect on a track whose effect_count is
\* MAX_EFFECTS_PER_TRACK returns without changing effect_count, any effect
\* or any other field of the track.
AddEffectAtCapacityRejected ==
    [][(/\ ctl.pc = "add_effect"
        /\ Slot(tracks, ctl.track).effect_count = MAX_EFFECTS_PER_TRACK
        /\ ctl' # ctl)
          => /\ ctl'.pc = "idle"
             /\ tracks' = tracks]_vars

\* A call on a full chain has returned while the callback was running.
AddEffectRejectedState ==
    /\ used.rejected = "add_effect"
    /\ Slot(tracks, 0).effect_count = MAX_EFFECTS_PER_TRACK
    /\ ctl.pc = "idle"
    /\ cb.pc # "idle"

\* C11: audio_engine_remove_effect and audio_engine_toggle_effect called with
\* an effect index that is negative or >= effect_count return without
\* changing effect_count or any effect of the track.
InvalidEffectIndexRejected ==
    [][(/\ ctl.pc \in {"remove_effect", "toggle_effect"}
        /\ (\/ ctl.index < 0
            \/ ctl.index >= Slot(tracks, ctl.track).effect_count)
        /\ ctl' # ctl)
          => /\ ctl'.pc = "idle"
             /\ tracks' = tracks]_vars

\* A toggle with a bad index has returned, after another API call, while the
\* callback was running over the track's chain.
BadIndexToggleReturned ==
    /\ used.rejected = "toggle_effect"
    /\ used.calls = CapCalls
    /\ ctl.pc = "idle"
    /\ cb.pc = "effect_frames"

\* The parameter word that (effect type, param_index) selects, -1 for none:
\* Gain 0; LowPass and HighPass 0, 1; Delay and Reverb 0, 1, 2.
SelectedWord(type, param_index) ==
    IF \/ type = EFFECT_GAIN /\ param_index = 0
       \/ type \in {EFFECT_LOWPASS, EFFECT_HIGHPASS} /\ param_index \in {0, 1}
       \/ type \in {EFFECT_DELAY, EFFECT_REVERB} /\ param_index \in {0, 1, 2}
    THEN param_index
    ELSE -1

\* C12: audio_engine_set_effect_param writes exactly the one parameter
\* selected by (effect type, param_index); for every other param_index or an
\* unhandled type it changes nothing; it never changes the effect's type or
\* enabled flag, the track's effect_count, or anything else of the tracks.
SetParamWritesSelectedOnly ==
    [][(ctl.pc = "set_effect_param" /\ ctl' # ctl)
         => LET track == Slot(tracks, ctl.track)
                eff == EffectAt(track, ctl.index)
                word == SelectedWord(eff.type, ctl.arg)
                after == [eff EXCEPT
                            !.p0 = IF word = 0 THEN ctl.value ELSE @,
                            !.p1 = IF word = 1 THEN ctl.value ELSE @,
                            !.p2 = IF word = 2 THEN ctl.value ELSE @]
            IN  /\ ctl'.pc = "idle"
                /\ Slot(tracks', ctl.track).effect_count = track.effect_count
                /\ EffectAt(Slot(tracks', ctl.track), ctl.index) = after
                /\ \A e \in 0 .. (MAX_EFFECTS_PER_TRACK - 1) :
                      e # ctl.index
                        => EffectAt(Slot(tracks', ctl.track), e)
                             = EffectAt(track, e)
                /\ [Slot(tracks', ctl.track) EXCEPT !.effects = << >>]
                     = [track EXCEPT !.effects = << >>]]_vars

\* The mix of a delay effect has been set, its time and feedback keep their
\* defaults, and the setter has returned while the callback was running.
DelayMixSetAlone ==
    LET eff == EffectAt(Slot(tracks, 0), 0)
    IN  /\ eff.type = EFFECT_DELAY
        /\ eff.enabled
        /\ eff.p0 = DefaultParam(EFFECT_DELAY, 0)
        /\ eff.p1 = DefaultParam(EFFECT_DELAY, 1)
        /\ eff.p2 = 0
        /\ ctl.pc = "idle"
        /\ cb.pc # "idle"

\* C17: an enabled Gain effect maps the sample of each channel to
\* sample * gain, and with gain 1.0 leaves both samples as they were.
GainScalesSamples ==
    [][LET effect == EffectAt(Slot(tracks, cb.t), cb.e)
       IN  (/\ cb.pc = "effect_frames"
            /\ cb.type = EFFECT_GAIN
            /\ effect.type = EFFECT_GAIN
            /\ effect.enabled
            /\ cb' # cb)
             => /\ temp_left' = [temp_left EXCEPT
                                   ![cb.i + 1] = Mul(@, effect.p0)]
                /\ temp_right' = [temp_right EXCEPT
                                    ![cb.i + 1] = Mul(@, effect.p0)]
                /\ effect.p0 = ONE
                     => /\ temp_left' = temp_left
                        /\ temp_right' = temp_right]_vars

\* An enabled gain effect with gain 0.5 has been run over the whole buffer
\* of a period and the last sample it scaled is not zero.
HalfGainApplied ==
    LET track == Slot(tracks, 0)
        effect == EffectAt(track, 0)
    IN  /\ cb.pc = "mix_out"
        /\ hist.quiet
        /\ track.effect_count = 1
        /\ effect.type = EFFECT_GAIN
        /\ effect.enabled
        /\ effect.p0 = 500
        /\ temp_left[MaxFrames] # 0
        /\ temp_right[MaxFrames] # 0

\* The chain of the track holds one effect, an enabled Gain with gain 0.
OnlyZeroGain(track) ==
    /\ track.effect_count = 1
    /\ EffectAt(track, 0).type = EFFECT_GAIN
    /\ EffectAt(track, 0).enabled
    /\ EffectAt(track, 0).p0 = 0

\* C18 (Scenario D): in a period that begins after add_effect(EFFECT_GAIN)
\* and set_effect_param(0, 0.0) have returned, with the track playing and
\* unmuted and its chain holding only that enabled Gain effect, the track
\* adds only zeros to the output and its peak_level and rms_level are 0.
ZeroGainSilencesTrack ==
    LET track == Slot(tracks, 0)
    IN  (/\ hist.quiet
         /\ ~hist.fast
         /\ 0 \in hist.mixed
         /\ cb.pc \in {"master", "master_finalize", "idle"}
         /\ OnlyZeroGain(track))
          => /\ ~track.mute
             /\ track.playing
             /\ OutSilent
             /\ track.peak_level = <<0, 0>>
             /\ track.rms_level = <<0, 0>>

\* The calls of the session have been made, the gain of the one effect of
\* the chain is 0, and a period that began after them has mixed the track
\* and ended.
ZeroGainPeriodEnded ==
    /\ used.calls = FxCalls
    /\ used.periods = FxPeriods
    /\ hist.quiet
    /\ 0 \in hist.mixed
    /\ cb.pc = "idle"
    /\ OnlyZeroGain(Slot(tracks, 0))

\* C13: when the sink fails to initialise or fails to start,
\* audio_engine_init returns false, does not set initialized, and leaves
\* master_volume, track_count, the playing flag, the initialized flag and all
\* tracks as they were before the call.
InitFailureLeavesState ==
    [][(ctl.pc \in {"init_device", "init_start"} /\ ctl'.pc = "idle")
         => /\ ret_init' = FALSE
            /\ ~initialized'
            /\ <<master_volume', track_count', playing', initialized', tracks'>>
                 = ctl.saved]_vars

\* C14: audio_engine_shutdown on an engine whose initialized flag is false
\* (after a first shutdown, after a failed init, before any init) returns
\* without changing any engine state, and the device is released only when
\* it is running, never a second time.
ShutdownIdempotent ==
    [][/\ (ctl.pc = "shutdown" /\ ~initialized /\ ctl' # ctl)
            => /\ ctl'.pc = "idle"
               /\ UNCHANGED <<tracks, track_count, master_volume, master_peak,
                              master_rms, playing, initialized, device,
                              filter_state_l, filter_state_r>>
       /\ (ctl.pc = "shutdown_uninit" /\ ctl' # ctl)
            => /\ device = "started"
               /\ device' = "none"]_vars

\* A second shutdown has returned on the engine that the first one shut
\* down, with its track still in place.
SecondShutdownReturned ==
    /\ used.rejected = "shutdown"
    /\ used.inits = 0
    /\ ret_init = TRUE
    /\ ~initialized
    /\ device = "none"
    /\ track_count > 0
    /\ ctl.pc = "idle"

\* C16: for every track, whatever its frequency, the oscillator phase after
\* each sample's wrap-correction never exceeds 2*pi in magnitude.
PhaseWithinTwoPi ==
    \A t \in TrackIdx : Abs(Slot(tracks, t).phase) <= TWO_PI

\* C15: the per-track filter state is written only by the audio callback,
\* while it runs an effect over the frames of a buffer; no step of init,
\* shutdown, add_track, add_effect, remove_effect, toggle_effect or
\* set_effect_param changes it.
FilterStateOwnedByCallback ==
    [][(\/ filter_state_l' # filter_state_l
        \/ filter_state_r' # filter_state_r)
         => /\ cb.pc = "effect_frames"
            /\ cb.type \in {EFFECT_LOWPASS, EFFECT_HIGHPASS}
            /\ cb' # cb
            /\ ctl' = ctl]_vars

\* The filter memories the callback left behind have come through a
\* shutdown, a new init and an add_track.
FilterStateOutlivesSession ==
    /\ FilterState(filter_state_l, 0) # 0
    /\ FilterState(filter_state_r, 0) # 0
    /\ used.inits = SurfInits
    /\ initialized
    /\ track_count = 1
    /\ ctl.pc = "idle"

\* C19: peak_level and rms_level of every track, master_peak and master_rms
\* are >= 0 in every state, and when a period that ran with the engine
\* playing has ended, rms[c] <= peak[c] for each channel c of every track
\* mixed in that period and of the master bus.
MetersSound ==
    /\ \A c \in 1 .. CHANNELS :
          /\ master_peak[c] >= 0
          /\ master_rms[c] >= 0
          /\ \A t \in TrackIdx :
                /\ Slot(tracks, t).peak_level[c] >= 0
                /\ Slot(tracks, t).rms_level[c] >= 0
    /\ (cb.pc = "idle" /\ used.periods > 0 /\ ~hist.fast)
          => \A c \in 1 .. CHANNELS :
                /\ master_rms[c] <= master_peak[c]
                /\ \A t \in hist.mixed :
                      Slot(tracks, t).rms_level[c]
                         <= Slot(tracks, t).peak_level[c]

\* A period that mixed every track of the session has ended with meters
\* that are not zero.
AllTracksMetered ==
    /\ cb.pc = "idle"
    /\ used.periods = MixPeriods
    /\ ~hist.fast
    /\ hist.mixed = MixIdx
    /\ \A t \in MixIdx : \A c \in 1 .. CHANNELS :
          /\ Slot(tracks, t).rms_level[c] > 0
          /\ Slot(tracks, t).rms_level[c] < Slot(tracks, t).peak_level[c]
    /\ \A c \in 1 .. CHANNELS :
          /\ master_rms[c] > 0
          /\ master_rms[c] < master_peak[c]

\* Scenario A: a period has ended that began with the control context
\* between two calls and ran without a step of it, with the engine and the
\* one track playing, the track at its default volume and pan with no
\* effects and a frequency below the sample rate, and the master volume at
\* its default.
ScenarioA ==
    LET track == Slot(tracks, 0)
    IN  /\ cb.pc = "idle"
        /\ hist.quiet
        /\ ~hist.fast
        /\ hist.mixed = {0}
        /\ initialized
        /\ track_count = 1
        /\ track.frequency = 6000
        /\ track.volume = 750
        /\ track.pan = 0
        /\ track.effect_count = 0
        /\ track.playing
        /\ playing
        /\ master_volume = 750

SomeOutputNonZero == \E k \in 1 .. (CHANNELS * MaxFrames) : out[k] # 0

\* C20 as stated: the period of Scenario A yields some non-zero output
\* sample, track and master peaks > 0, and for each channel a master peak
\* equal to the track peak within a tolerance of one percent.
ScenarioAPeaksEqual ==
    ScenarioA
      => /\ SomeOutputNonZero
         /\ \A c \in 1 .. CHANNELS :
               LET peak == Slot(tracks, 0).peak_level[c]
               IN  /\ peak > 0
                   /\ master_peak[c] > 0
                   /\ Abs(master_peak[c] - peak) * 100 <= peak

\* C20 amended: the period of Scenario A yields some non-zero output sample,
\* track and master peaks > 0, and for each channel a master peak equal to
\* the track peak times the master volume (0.75 by default).
ScenarioAPeaksScaled ==
    ScenarioA
      => /\ SomeOutputNonZero
         /\ \A c \in 1 .. CHANNELS :
               LET peak == Slot(tracks, 0).peak_level[c]
               IN  /\ peak > 0
                   /\ master_peak[c] > 0
                   /\ master_peak[c] = Mul(peak, master_volume)

\* The period of Scenario A has ended on the session as audio_engine_init,
\* audio_engine_add_track and the play buttons left it, before any other
\* call.
ScenarioAPeriodEnded ==
    /\ ScenarioA
    /\ used.calls = 0
    /\ used.periods = 1
    /\ Slot(tracks, 0).phase = MaxFrames * PhaseInc(6000)

\* C30: an effect whose enabled flag is false, of any kind and with any
\* parameters, leaves every sample of the left and right buffers and the
\* filter state of the track unchanged when the callback runs it.
DisabledEffectIsNoOp ==
    [][LET e == IF cb.pc = "effects_gate" THEN 0 ELSE cb.e
           effect == EffectAt(Slot(tracks, cb.t), e)
       IN  (/\ cb.pc \in {"effects_gate", "effect_loop", "effect_frames"}
            /\ ~effect.enabled
            /\ cb' # cb)
             => UNCHANGED <<temp_left, temp_right, filter_state_l,
                            filter_state_r>>]_vars

\* The callback has run a low-pass filter that was switched off before the
\* period began over a buffer that is not silent, and the filter memory is
\* still zero.
DisabledLowpassPassed ==
    LET track == Slot(tracks, 0)
        effect == EffectAt(track, 0)
    IN  /\ cb.pc = "mix_out"
        /\ hist.quiet
        /\ hist.effect_index = 0
        /\ track.effect_count = 1
        /\ effect.type = EFFECT_LOWPASS
        /\ ~effect.enabled
        /\ temp_left[MaxFrames] # 0
        /\ temp_right[MaxFrames] # 0
        /\ FilterState(filter_state_l, 0) = 0

\* The parameters a new effect of each kind is to have: Gain 1.0; LowPass and
\* HighPass cutoff 1000, resonance 1; Delay 250 ms, 0.3, 0.5; Reverb 0.5, 0.5,
\* 0.3.
KindDefaults(type) ==
    CASE type = EFFECT_GAIN -> <<ONE>>
      [] type \in {EFFECT_LOWPASS, EFFECT_HIGHPASS} -> <<1000 * ONE, ONE>>
      [] type = EFFECT_DELAY -> <<250 * ONE, 300, 500>>
      [] type = EFFECT_REVERB -> <<500, 500, 300>>

\* The first parameter words of an effect.
ParamWords(effect, n) == SubSeq(<<effect.p0, effect.p1, effect.p2>>, 1, n)

\* C29: an audio_engine_add_effect that finds effect_count < 8 returns with
\* an effect of the requested type at index old effect_count, enabled and
\* with the defaults of its kind, with effect_count increased by exactly 1
\* and effects 0..old count-1 unchanged.
AddEffectAppendsDefaults ==
    [][(ctl.pc \in AddEffectPcs /\ ctl'.pc = "idle")
         => LET before == ctl.saved[1]
                count == ctl.saved[2]
                track == Slot(tracks', ctl.track)
                effect == EffectAt(track, count)
            IN  /\ count < MAX_EFFECTS_PER_TRACK
                /\ track.effect_count = count + 1
                /\ effect.type = ctl.arg
                /\ effect.enabled
                /\ ParamWords(effect, Len(KindDefaults(ctl.arg)))
                     = KindDefaults(ctl.arg)
                /\ \A e \in 0 .. (count - 1) :
                      EffectAt(track, e)
                        = IF e \in DOMAIN before THEN before[e]
                                                 ELSE ZeroEffect]_vars

\* A reverb has been added after the two effects the chain already had,
\* while the callback was running.
ReverbAppended ==
    LET track == Slot(tracks, 0)
    IN  /\ ctl.pc = "idle"
        /\ cb.pc # "idle"
        /\ track.effect_count = 3
        /\ EffectAt(track, 0).type = EFFECT_HIGHPASS
        /\ EffectAt(track, 1).type = EFFECT_GAIN
        /\ EffectAt(track, 2).type = EFFECT_REVERB
        /\ EffectAt(track, 2).enabled
        /\ EffectAt(track, 2).p2 = 300

\* C28: audio_engine_remove_effect with a valid index i decreases
\* effect_count by exactly one, leaves effects 0..i-1 as they were, and
\* moves each former effect j+1 (i <= j < old count - 1) to index j with its
\* type, enabled flag and parameters intact.
RemoveEffectShiftsDown ==
    [][(ctl.pc = "remove_effect_shift" /\ ctl'.pc = "idle")
         => LET before == ctl.saved[1]
                count == ctl.saved[2]
                Old(j) == IF j \in DOMAIN before THEN before[j] ELSE ZeroEffect
                track == Slot(tracks', ctl.track)
            IN  /\ ctl.index >= 0
                /\ ctl.index < count
                /\ track.effect_count = count - 1
                /\ \A j \in 0 .. (ctl.index - 1) : EffectAt(track, j) = Old(j)
                /\ \A j \in ctl.index .. (count - 2) :
                       EffectAt(track, j) = Old(j + 1)]_vars

\* The high-pass filter at the head of the chain has been removed and the
\* gain behind it now sits at index 0.
GainShiftedToHead ==
    LET track == Slot(tracks, 0)
    IN  /\ ctl.pc = "idle"
        /\ used.calls = 1
        /\ track.effect_count = 1
        /\ EffectAt(track, 0).type = EFFECT_GAIN
        /\ EffectAt(track, 0).enabled
        /\ EffectAt(track, 0).p0 = ONE

\* C25: while audio_engine_add_effect is still storing into the slot it has
\* counted in, a frame the callback puts through that slot as an enabled
\* effect is processed with the requested type and the defaults of its kind.
AppliedEffectInitialized ==
    [][LET effect == EffectAt(Slot(tracks, cb.t), cb.e)
       IN  (/\ cb.pc = "effect_frames"
            /\ cb' # cb
            /\ ctl.pc \in AddEffectPcs
            /\ ctl.track = cb.t
            /\ ctl.index = cb.e
            /\ effect.enabled)
             => /\ cb.type = ctl.arg
                /\ ParamWords(effect, Len(KindDefaults(ctl.arg)))
                     = KindDefaults(ctl.arg)]_vars

\* C26: the callback never generates a sample for a track slot that
\* audio_engine_add_track has counted in and is still storing into.
GeneratesOnlyFinishedSlots ==
    [][~(/\ cb.pc = "generate"
         /\ cb' # cb
         /\ ctl.pc \in AddTrackPcs
         /\ ctl.index = cb.t)]_vars

\* The kinds of a track's chain, in order.
ChainTypes(track) ==
    [k \in 1 .. track.effect_count |-> EffectAt(track, k - 1).type]

\* C27: when one effect has been removed from the session's chain, the
\* effects the callback has passed the track through in the period are the
\* chain as it was before the removal or the chain as it is after it.
AppliedChainWhole ==
    (/\ cb.pc = "mix_out"
     /\ ctl.pc = "idle"
     /\ used.calls = 1
     /\ Slot(tracks, 0).effect_count = 1)
      => hist.applied \in {<<EditChain[0], EditChain[1]>>,
                           ChainTypes(Slot(tracks, 0))}

\* C21: of two included tracks that differ only in volume, v and k * v, the
\* one with k times the volume measures k times the peak on each channel,
\* within the 0.002 that the truncations of the signal path leave between a
\* measured peak and its exact value; a track of volume 0 hands only zeros
\* to the mix.
PeakLinearInVolume ==
    LET quiet == Slot(tracks, 0)
        loud == Slot(tracks, 1)
    IN  /\ (cb.pc = "idle" /\ hist.mixed = {0, 1})
              => \A c \in 1 .. CHANNELS :
                    Abs(loud.peak_level[c] * quiet.volume
                          - quiet.peak_level[c] * loud.volume)
                      <= 2 * (quiet.volume + loud.volume)
        /\ (cb.pc = "mix_out" /\ Slot(tracks, cb.t).volume = 0)
              => \A i \in 1 .. cb.frame_count :
                    temp_left[i] = 0 /\ temp_right[i] = 0

\* A period has ended in which a track of volume 0.25 and a track of twice
\* that volume, each behind an enabled low-pass filter, were mixed.
DoubleVolumeMetered ==
    /\ cb.pc = "idle"
    /\ hist.mixed = {0, 1}
    /\ Slot(tracks, 0).volume = 250
    /\ Slot(tracks, 1).volume = 500
    /\ Slot(tracks, 0).effect_count = 1
    /\ EffectAt(Slot(tracks, 0), 0).type = EFFECT_LOWPASS
    /\ Slot(tracks, 0).peak_level[1] > 0
    /\ Slot(tracks, 1).peak_level[1] > Slot(tracks, 0).peak_level[1]

\* The oscillator's sample for frame i (from 1) of the period whose generate
\* loop has left the track's phase where it is now.
FullSample(track, frame_count, i) ==
    OscSample([track EXCEPT !.phase =
                  @ - (frame_count - i + 1) * PhaseInc(track.frequency)])

\* C22: for a single included track without effects, at pan = -1 the right
\* channel of every frame is 0 and the left channel carries the full
\* signal, at pan = +1 the reverse holds, and at pan = 0 the left and right
\* peaks are equal.
PanBoundaries ==
    LET track == Slot(tracks, 0)
        alone == track.effect_count = 0 /\ ~Slot(tracks, 1).playing
        frames == 1 .. cb.frame_count
    IN  /\ (alone /\ cb.pc = "mix_out" /\ cb.t = 0 /\ track.pan = -ONE)
              => \A i \in frames :
                    /\ temp_right[i] = 0
                    /\ temp_left[i] = FullSample(track, cb.frame_count, i)
        /\ (alone /\ cb.pc = "mix_out" /\ cb.t = 0 /\ track.pan = ONE)
              => \A i \in frames :
                    /\ temp_left[i] = 0
                    /\ temp_right[i] = FullSample(track, cb.frame_count, i)
        /\ (alone /\ cb.pc = "idle" /\ hist.mixed = {0} /\ track.pan = -ONE)
              => /\ \A i \in frames : out[2 * i] = 0
                 /\ master_peak[2] = 0
        /\ (alone /\ cb.pc = "idle" /\ hist.mixed = {0} /\ track.pan = ONE)
              => /\ \A i \in frames : out[2 * i - 1] = 0
                 /\ master_peak[1] = 0
        /\ (alone /\ cb.pc = "idle" /\ hist.mixed = {0} /\ track.pan = 0)
              => /\ track.peak_level[1] = track.peak_level[2]
                 /\ master_peak[1] = master_peak[2]

\* A period has ended in which the only included track, panned hard left
\* and without effects, put a signal into the left channel.
HardLeftPlayed ==
    /\ cb.pc = "idle"
    /\ hist.mixed = {0}
    /\ Slot(tracks, 0).effect_count = 0
    /\ Slot(tracks, 0).pan = -ONE
    /\ ~Slot(tracks, 1).playing
    /\ master_peak[1] > 0
    /\ \E i \in 1 .. MaxFrames : out[2 * i - 1] # 0

\* C23: for a cutoff above 0 and inputs of magnitude at most 1.0, the
\* carried state of an enabled low-pass or high-pass filter stays within
\* 1.0 and its output within 2.0, however long the run.
FilterBounded ==
    LET effect == EffectAt(Slot(tracks, 0), 0)
    IN  (/\ effect.type \in {EFFECT_LOWPASS, EFFECT_HIGHPASS}
         /\ effect.enabled
         /\ effect.p0 > 0)
          => /\ Abs(FilterState(filter_state_l, 0)) <= ONE
             /\ Abs(temp_left[1]) <= 2 * ONE

\* A high-pass filter whose state had followed the input below zero has
\* returned more than 1.5 for an input of 1.0, and its state has moved on.
HighpassSwing ==
    LET effect == EffectAt(Slot(tracks, 0), 0)
    IN  /\ effect.type = EFFECT_HIGHPASS
        /\ effect.enabled
        /\ effect.p0 = ONE
        /\ FilterState(filter_state_l, 0) > 0
        /\ temp_left[1] > ONE + 500

\* The tracks a period takes in: playing, not muted, and soloed if any track
\* is soloed.
IncludedTracks ==
    LET idx == 0 .. (track_count - 1)
        any_solo == \E t \in idx : Slot(tracks, t).solo
    IN  {t \in idx : /\ Slot(tracks, t).playing
                     /\ ~Slot(tracks, t).mute
                     /\ any_solo => Slot(tracks, t).solo}

\* A sample after the first n effects of a chain of gains.
RECURSIVE ThroughGains(_, _, _)
ThroughGains(track, n, sample) ==
    IF n = 0 THEN sample
    ELSE process_gain_effect(ThroughGains(track, n - 1, sample),
                             EffectAt(track, n - 1))

\* The post-effects sample of channel c (1 left, 2 right) of frame i (from
\* 1) of a track whose effects are gains, in the period that has just ended.
PostSample(t, frame_count, i, c) ==
    LET track == Slot(tracks, t)
        sample == FullSample(track, frame_count, i)
        panned == IF c = 1 THEN Mul(sample, LeftGain(track.pan))
                           ELSE Mul(sample, RightGain(track.pan))
    IN  ThroughGains(track, track.effect_count, panned)

RECURSIVE SumPost(_, _, _, _)
SumPost(S, frame_count, i, c) ==
    IF S = {} THEN 0
    ELSE LET t == CHOOSE x \in S : TRUE
         IN  PostSample(t, frame_count, i, c)
               + SumPost(S \ {t}, frame_count, i, c)

RECURSIVE SumScaled(_, _, _, _)
SumScaled(S, frame_count, i, c) ==
    IF S = {} THEN 0
    ELSE LET t == CHOOSE x \in S : TRUE
         IN  Mul(PostSample(t, frame_count, i, c), master_volume)
               + SumScaled(S \ {t}, frame_count, i, c)

\* C24: when a period that ran with the engine playing has ended, every
\* output sample is master_volume times the sum of the post-effects samples
\* of the tracks the period mixed, which are exactly the included tracks
\* when no control step fell into the period; the output is the sum of the
\* outputs each mixed track gives alone, within 0.001 per track.
OutputIsScaledSum ==
    (cb.pc = "idle" /\ used.periods > 0 /\ ~hist.fast)
      => /\ \A i \in 1 .. cb.frame_count : \A c \in 1 .. CHANNELS :
               LET sample == out[(i - 1) * CHANNELS + c]
               IN  /\ sample = Mul(SumPost(hist.mixed, cb.frame_count, i, c),
                                   master_volume)
                   /\ Abs(sample - SumScaled(hist.mixed, cb.frame_count, i, c))
                        <= Cardinality(hist.mixed)
         /\ hist.quiet => hist.mixed = IncludedTracks

\* A period without a control step has ended that mixed both tracks of the
\* session into an output that is not silent.
TwoTracksSummed ==
    /\ cb.pc = "idle"
    /\ used.periods > 0
    /\ hist.quiet
    /\ hist.mixed = {0, 1}
    /\ IncludedTracks = {0, 1}
    /\ \E k \in 1 .. (CHANNELS * MaxFrames) :
          /\ out[k] # 0
          /\ out[k] # Mul(PostSample(0, cb.frame_count, (k + 1) \div 2,
                                     2 - (k % 2)), master_volume)
          /\ out[k] # Mul(PostSample(1, cb.frame_count, (k + 1) \div 2,
                                     2 - (k % 2)), master_volume)

\* C38: audio_engine_toggle_effect with a valid index flips the enabled flag
\* of that one effect and changes nothing else of the track or of any other
\* track, so that toggling the same index once more gives back the tracks
\* as they were.
ToggleFlipsEnabledOnly ==
    [][LET track == Slot(tracks, ctl.track)
           after == Slot(tracks', ctl.track)
           was == EffectAt(track, ctl.index)
           is == EffectAt(after, ctl.index)
       IN  (/\ ctl.pc = "toggle_effect"
            /\ ctl' # ctl
            /\ ctl.index >= 0
            /\ ctl.index < track.effect_count)
             => /\ is.enabled = ~was.enabled
                /\ is.type = was.type
                /\ <<is.p0, is.p1, is.p2>> = <<was.p0, was.p1, was.p2>>
                /\ after.effect_count = track.effect_count
                /\ \A e \in (0 .. (MAX_EFFECTS_PER_TRACK - 1)) \ {ctl.index} :
                      EffectAt(after, e) = EffectAt(track, e)
                /\ [after EXCEPT !.effects = track.effects] = track
                /\ \A t \in TrackIdx \ {ctl.track} :
                      Slot(tracks', t) = Slot(tracks, t)
                /\ Put(tracks', ctl.track,
                       PutEffect(after, ctl.index, ToggledEffect(is)))
                     = tracks]_vars

\* The low-pass filter of the session's track has been switched off by a
\* toggle while the callback was running, its cutoff left as it was.
LowpassSwitchedOff ==
    LET effect == EffectAt(Slot(tracks, 0), 0)
    IN  /\ ctl.pc = "idle"
        /\ cb.pc # "idle"
        /\ used.calls = 1
        /\ used.rejected = ""
        /\ Slot(tracks, 0).effect_count = 1
        /\ effect.type = EFFECT_LOWPASS
        /\ ~effect.enabled
        /\ effect.p0 = 1000 * ONE

\* C34: audio_engine_shutdown on an initialized engine releases the device
\* with playing already false and initialized still true, sets initialized
\* to false only with the device released, and returns with playing = false
\* and initialized = false.
ShutdownOrder ==
    [][LET body == {"shutdown_stop", "shutdown_uninit", "shutdown_store"}
       IN  /\ (ctl.pc \in body /\ device' # device)
                 => (~playing /\ initialized /\ initialized' /\ device' = "none")
           /\ (initialized /\ ~initialized')
                 => (ctl.pc \in body /\ device = "none" /\ ~playing)
           /\ (ctl.pc \in body /\ ctl'.pc = "idle")
                 => (~playing' /\ ~initialized' /\ device' = "none")]_vars

\* The shutdown of the playing session has returned.
SessionShutDown ==
    /\ ctl.pc = "idle"
    /\ used.inits = 0
    /\ used.rejected = ""
    /\ ~initialized
    /\ ~playing
    /\ device = "none"

\* The fields of a track that the control context owns.
ControlFields(track) ==
    <<track.name, track.volume, track.pan, track.mute, track.solo,
      track.armed, track.frequency, track.playing, track.effect_count,
      track.effects>>

\* C36: no step of the audio callback writes track_count, a track's
\* effect_count or effects, a track's name, volume, pan, mute, solo, armed,
\* frequency or playing flag, master_volume, or the engine's playing and
\* initialized flags.
CallbackLeavesControlFields ==
    [][(cb' # cb)
         => /\ UNCHANGED <<track_count, master_volume, playing, initialized>>
            /\ DOMAIN tracks' = DOMAIN tracks
            /\ \A t \in DOMAIN tracks :
                  ControlFields(tracks'[t]) = ControlFields(tracks[t])]_vars

\* A period has ended in which the callback advanced the phase of the
\* session's track and wrote its meters, the master meters and the output.
CallbackWroteItsFields ==
    /\ cb.pc = "idle"
    /\ used.periods > 0
    /\ Slot(tracks, 0).phase > 0
    /\ Slot(tracks, 0).peak_level[1] > 0
    /\ Slot(tracks, 0).rms_level[1] > 0
    /\ master_peak[1] > 0
    /\ master_rms[1] > 0
    /\ \E k \in 1 .. (CHANNELS * MaxFrames) : out[k] # 0 /\ out[k] # 9

\* The kinds whose case in process_track_effects does nothing.
InertKinds == {EFFECT_NONE, EFFECT_DELAY, EFFECT_REVERB}

\* The track's chain is not empty and holds effects of inert kinds only.
InertChain(track) ==
    /\ track.effect_count > 0
    /\ \A e \in 0 .. (track.effect_count - 1) :
          EffectAt(track, e).type \in InertKinds

\* The sample of channel c of frame i that a track with an empty chain hands
\* to the mix.
BareSample(track, frame_count, i, c) ==
    LET sample == FullSample(track, frame_count, i)
    IN  IF c = 1 THEN Mul(sample, LeftGain(track.pan))
                 ELSE Mul(sample, RightGain(track.pan))

RECURSIVE BarePeak(_, _, _, _)
BarePeak(track, frame_count, i, c) ==
    IF i = 0 THEN 0
    ELSE PeakAfter(BarePeak(track, frame_count, i - 1, c),
                   BareSample(track, frame_count, i, c))

\* C37: a track whose chain holds only Delay and Reverb effects and effects
\* of an unhandled kind hands to the mix the samples it would with an empty
\* chain, keeps its filter state, and measures the peaks of those samples.
InertEffectsPassThrough ==
    LET track == Slot(tracks, 0)
    IN  /\ (cb.pc = "mix_out" /\ cb.t = 0 /\ InertChain(track))
              => /\ \A i \in 1 .. cb.frame_count :
                       /\ temp_left[i] = BareSample(track, cb.frame_count, i, 1)
                       /\ temp_right[i] = BareSample(track, cb.frame_count, i, 2)
                 /\ FilterState(filter_state_l, 0) = 0
                 /\ FilterState(filter_state_r, 0) = 0
        /\ (cb.pc = "idle" /\ 0 \in hist.mixed /\ InertChain(track))
              => \A c \in 1 .. CHANNELS :
                    track.peak_level[c]
                      = BarePeak(track, cb.frame_count, cb.frame_count, c)

\* A period has ended in which the track was mixed behind an enabled
\* reverb.
ReverbPassed ==
    LET track == Slot(tracks, 0)
    IN  /\ cb.pc = "idle"
        /\ 0 \in hist.mixed
        /\ hist.applied = <<EFFECT_REVERB>>
        /\ track.effect_count = 1
        /\ EffectAt(track, 0).type = EFFECT_REVERB
        /\ EffectAt(track, 0).enabled
        /\ track.peak_level[1] > 0

\* C33: the callback changes a track only after the track has passed the
\* mute, playing and solo tests of the period, and then only that track: a
\* skipped track keeps its phase, peak_level and rms_level.  With the engine
\* not playing the callback returns without a change to any track or to
\* master_peak and master_rms.
SkippedTrackUntouched ==
    [][LET track == Slot(tracks, cb.t)
           body == {"reset_meters", "generate", "effects_gate", "effect_loop",
                    "effect_frames", "mix_out", "finalize"}
       IN  (cb' # cb)
             => /\ (cb.pc \notin body /\ cb'.pc \in body)
                      => /\ cb.pc = "solo_check"
                         /\ cb'.t = cb.t
                         /\ track.solo \/ ~cb.any_solo
                /\ (cb.pc # "solo_check" /\ cb'.pc = "solo_check")
                      => /\ cb.pc = "mix_check"
                         /\ cb'.t = cb.t
                         /\ ~track.mute
                         /\ track.playing
                /\ (cb.pc \in body /\ cb'.pc \in body) => cb'.t = cb.t
                /\ (tracks' # tracks)
                      => /\ cb.pc \in body
                         /\ \A t \in DOMAIN tracks \ {cb.t} :
                               tracks'[t] = tracks[t]
                /\ (cb.pc = "entry" /\ ~playing)
                      => /\ cb'.pc = "idle"
                         /\ UNCHANGED <<tracks, master_peak, master_rms>>]_vars

\* The second period has ended: it mixed track 0 and passed over track 1,
\* muted after the first period, which keeps the phase and the meters the
\* first period gave it.
MutedTrackSkipped ==
    /\ cb.pc = "idle"
    /\ used.periods = 2
    /\ ~hist.fast
    /\ hist.quiet
    /\ hist.mixed = {0}
    /\ Slot(tracks, 1).mute
    /\ Slot(tracks, 1).playing
    /\ Slot(tracks, 1).phase = MaxFrames * PhaseInc(18000)
    /\ Slot(tracks, 1).peak_level[1] > 0
    /\ Slot(tracks, 1).rms_level[1] > 0
    /\ Slot(tracks, 0).phase = 2 * MaxFrames * PhaseInc(6000)

RmsMeters ==
    <<master_rms, [t \in DOMAIN tracks |-> tracks[t].rms_level]>>

\* C32: the control context can only ever read a meter's initial value or
\* the value finalized at the end of a period; every store the callback makes
\* to rms_level or master_rms is therefore the store of the square root of
\* the mean that ends a period, never a reset to zero or a running sum of
\* squares.
MeterStoresAreFinal ==
    [][((cb' # cb) /\ (RmsMeters' # RmsMeters))
          => cb.pc \in {"finalize", "master_finalize"}]_vars

\* C35: when only solo flags change while a period is mixed, the tracks
\* mixed are the eligible tracks of one instant of the period, so a period
\* in which every track is playing and unmuted at every instant (some track
\* is then eligible at every instant, whatever the solo flags) has mixed at
\* least one track by the time the track loop has ended.
SoloChangeNeverSilences ==
    (/\ cb.pc \in {"master", "master_finalize"}
     /\ ~hist.fast
     /\ playing
     /\ track_count > 0
     /\ \A t \in 0 .. (track_count - 1) :
            Slot(tracks, t).playing /\ ~Slot(tracks, t).mute)
        => hist.mixed # {}

====
